---- MODULE Spec2Model ----
(***************************************************************************)
(* A model of the GitLens tree views: lazily materialised nodes            *)
(* (BranchNode, BranchesNode, CommitNode), repository change matching,     *)
(* the reveal search of the views, and the pull-request enrichment of the  *)
(* line annotation controller.                                             *)
(*                                                                         *)
(* The program runs on one cooperative event loop: every `await` is a      *)
(* suspension point, so an async method is a sequence of atomic steps, one *)
(* per stretch of code between two awaits.                                 *)
(***************************************************************************)
EXTENDS Integers, Sequences, FiniteSets, TLC

(***************************************************************************)
(* Bounds of the model.                                                    *)
(***************************************************************************)
MaxRepoLen == 4
MaxAhead == 2
PageItemLimit == 2
DefaultItemLimit == 1
MaxBranches == 2

undefined == [undefined |-> TRUE]

Min(a, b) == IF a < b THEN a ELSE b

IsPrefix(s, t) == Len(s) <= Len(t) /\ SubSeq(t, 1, Len(s)) = s

\* The callers of getChildren(): the tree view host and a reveal can both
\* have a call in flight.
Callers == {1, 2}

(***************************************************************************)
(* BranchNode                                                              *)
(***************************************************************************)
VARIABLES
    children,   \* BranchNode._children
    log,        \* BranchNode._log
    limit,      \* BranchNode.limit (0 - 1: undefined)
    root,       \* BranchNode.root
    repoLen,    \* the commits reachable from the branch (the data source)
    ahead,      \* branch.state.ahead
    pc,         \* per caller: where its getChildren() call is suspended
    local,      \* per caller: the locals of its getChildren() call
    lm,         \* the (gated) loadMore() call: its position and locals
    prevRet,    \* per node: the result of the getChildren() call before the last,
                \* since the node was last invalidated
    lastRet,    \* per node: the result of the last completed getChildren() call,
                \* since the node was last invalidated
    bsChildren, \* BranchesNode._children
    layout,     \* view.config.branches.layout
    branches,   \* the number of local branches repo.getBranches returns
    bsPc,       \* where the getChildren() call on the BranchesNode is suspended
    expanded    \* the node the tree view is expanding

\* Repository change events and the repository nodes that subscribe to them.
VARIABLES
    repoChild,      \* per repository node: whether its child is materialised
    subscribed,     \* per repository node: whether it holds a subscription
    lastEvent,      \* the kinds of the last delivered change event
    deliveredTo,    \* the nodes the last event was delivered to
    invalidatedBy,  \* the nodes the last event invalidated
    mEvent,         \* the matcher under test: the kinds of the event,
    mWatch,         \*   the kinds asked for,
    mMode,          \*   the comparison mode,
    mResult,        \*   what changed(...) returned,
    mNode           \*   and what each repository node's changed(e) returned

\* The reveal search of a view.
VARIABLES
    fOp,        \* the operation that searches
    repos,      \* the number of open repositories
    folders,    \* how many folders deep the branches nest under their container
    fTarget,    \* what is searched for: its repository, branch.remote, the commit ref
    fPc,        \* where the search is
    fQueue,     \* the nodes still to visit, each with its depth
    fNode,      \* the node being visited, with its depth and whether it was paged
    fResult,    \* what findNode returned
    token,      \* token.isCancellationRequested
    fCalled,    \* the nodes whose getChildren() the search has called, with their depth
    fPruned     \* the nodes for which canTraverse returned false

\* The pull request lookups of the line annotation controller.
VARIABLES
    rLines,     \* the commit refs of the lines getPullRequests is called with
    rProvider,  \* whether the repository has a rich remote provider
    rPc,        \* where getPullRequests is
    rLookup,    \* per ref: its getPullRequestForCommit promise (running or settled)
    raceMap,    \* the entries of the map raceAll returned
    rAtReturn,  \* the promises as they were when raceAll returned
    rPrs        \* what getPullRequests returned

\* The line annotation controller.
VARIABLES
    cEditor,    \* _editor (0: undefined)
    cToken,     \* the token of _cancellation (0: undefined)
    cCancelled, \* the tokens whose cancellation was requested
    cSuspended, \* the controller's suspended
    cCfg,       \* the lines' commit refs, the provider, whether pull requests are shown
    proc,       \* the refresh calls, each with its waitForAnyPendingPullRequests
    cLookup,    \* per refresh and ref: its getPullRequestForCommit promise
    cDecor,     \* per editor: the decorations set on it
    cFired,     \* the refreshes whose follow-up refresh was called
    cStale,     \* the refreshes that were overtaken while their wait was pending
    cChained    \* whether a follow-up refresh began to wait for a follow-up itself

annotVars == <<cEditor, cToken, cCancelled, cSuspended, cCfg, proc, cLookup, cDecor,
               cFired, cStale, cChained>>

\* A view's root node with its repository nodes.
VARIABLES
    vView,       \* the view the root node belongs to
    vChildren,   \* the root's children: undefined or the repository nodes
    vChild,      \* per repository node: its child (0: undefined)
    vSubscribed, \* the repository nodes that hold a subscription
    vDisposed,   \* the nodes dispose() was called on
    vObjs,       \* how many nodes were constructed
    vCall,       \* the root's getChildren() calls: the position and the child held
    vDropped,    \* the nodes a children field held and holds no more
    vLeaked,     \* the dropped nodes not disposed when new children were materialized
    vOnDisposed  \* what was done with a repository node after its dispose()

viewVars == <<vView, vChildren, vChild, vSubscribed, vDisposed, vObjs, vCall, vDropped,
              vLeaked, vOnDisposed>>

\* A subscribeable node with its child and its subscription.
VARIABLES
    tKind,      \* the node's class
    tKids,      \* _child (0: undefined), the children constructed, their dispose() counts
    tSubs,      \* the subscription held (0: none), the handles created, their dispose() counts
    tCan,       \* canSubscribe
    tRun,       \* how many dispose() calls were made in a row just now
    tLog,       \* what these dispose() calls disposed, in order
    tGet,       \* the getChildren() calls: idle or at their await
    tUnensured  \* the requests served without a call of ensureSubscription()

trackVars == <<tKind, tKids, tSubs, tCan, tRun, tLog, tGet, tUnensured>>

\* Failing data access, and the gated refresh() of a subscribeable node.
VARIABLES
    xRejected,  \* the nodes whose getChildren() call rejected
    tFlight,    \* the executions of refresh() in flight, and whether a call joined one
    fRevealed,  \* the node a reveal handed to ensureRevealNode or reveal
    splatted    \* the node's splatted flag

\* The reveal calls of a view behind their gate.
VARIABLES
    rvFlight,   \* the reveal operations in flight: method, gate key and target
    rvCall      \* per caller: the call made, the operation awaited, the result

shareVars == <<rvFlight, rvCall>>

\* The nodeIds of the nodes a view holds.
VARIABLES
    nodeIds         \* per place in the tree: the entity shown, the id of its node

idVars == <<nodeIds>>

\* The file history tracker with the uri it shows.
VARIABLES
    fh          \* _uri, _base, _child, the children constructed, the calls in flight

uriVars == <<fh>>

\* The flags of the line annotation controller.
VARIABLES
    lac         \* _enabled, _suspended, the line tracker subscription, the last call

lacVars == <<lac>>

\* A branch node's inputs and the children it has materialized.
VARIABLES
    bc          \* the inputs of getChildren and `_children`

bcVars == <<bc>>

moreVars == <<shareVars, idVars, uriVars, lacVars, bcVars>>

failVars == <<xRejected, tFlight, fRevealed, splatted, moreVars>>

\* The parts of the model that follow the pull request lookups.
lateVars == <<annotVars, viewVars, trackVars, failVars>>

raceVars == <<rLines, rProvider, rPc, rLookup, raceMap, rAtReturn, rPrs>>

findVars == <<fOp, repos, folders, fTarget, fPc, fQueue, fNode, fResult, token,
              fCalled, fPruned>>

changeVars == <<repoChild, subscribed, lastEvent, deliveredTo, invalidatedBy>>

matchVars == <<mEvent, mWatch, mMode, mResult, mNode>>

branchVars == <<children, log, limit, root, repoLen, ahead, pc, local, lm>>

retVars == <<prevRet, lastRet>>

bsVars == <<bsChildren, layout, branches, bsPc>>

\* What the actions of one part of the model leave alone.
notTree == <<changeVars, matchVars, raceVars, lateVars>>

\* What a call into the BranchNode leaves alone, but for its caller's state.
notBranchNorFind == <<bsVars, expanded, notTree>>

notBranch == <<notBranchNorFind, findVars>>

notBranches == <<branchVars, expanded, notTree, findVars>>

notCommit == <<branchVars, bsVars, expanded, notTree, findVars>>

treeVars == <<branchVars, retVars, bsVars, expanded>>

notChange == <<treeVars, matchVars, findVars, raceVars, lateVars>>

notMatch == <<treeVars, changeVars, findVars, raceVars, lateVars>>

notRace == <<treeVars, changeVars, matchVars, findVars, lateVars>>

earlyVars == <<treeVars, changeVars, matchVars, findVars, raceVars>>

notAnnot == <<earlyVars, viewVars, trackVars, failVars>>

notView == <<earlyVars, annotVars, trackVars, failVars>>

notTrack == <<earlyVars, annotVars, viewVars, failVars>>

notGate == <<earlyVars, annotVars, viewVars, xRejected, fRevealed, splatted, moreVars>>

\* What a failing call of a tree node leaves alone.
notFail == <<changeVars, matchVars, findVars, raceVars, annotVars, viewVars, trackVars>>

notShare == <<earlyVars, annotVars, viewVars, trackVars, xRejected, tFlight, fRevealed,
              splatted, idVars, uriVars, lacVars, bcVars>>

notIds == <<earlyVars, annotVars, viewVars, trackVars, xRejected, tFlight, fRevealed,
            splatted, shareVars, uriVars, lacVars, bcVars>>

notUri == <<earlyVars, annotVars, viewVars, trackVars, xRejected, tFlight, fRevealed,
            splatted, shareVars, idVars, lacVars, bcVars>>

notLac == <<earlyVars, annotVars, viewVars, trackVars, xRejected, tFlight, fRevealed,
            splatted, shareVars, idVars, uriVars, bcVars>>

notBc == <<earlyVars, annotVars, viewVars, trackVars, xRejected, tFlight, fRevealed,
           splatted, shareVars, idVars, uriVars, lacVars>>

NoLimit == 0 - 1

\* Object identity.  An object is named by a number; a new object takes the
\* least number that no field, local or recorded result still refers to, so
\* two references are equal exactly when they refer to the same object.
ObjOf(v) == IF v = undefined THEN {} ELSE {v.obj}

UsedObjs ==
    UNION ({ObjOf(children), ObjOf(log), ObjOf(lm.log), ObjOf(bsChildren)}
           \cup {ObjOf(local[c].log) : c \in DOMAIN local}
           \cup {ObjOf(prevRet[n]) : n \in DOMAIN prevRet}
           \cup {ObjOf(lastRet[n]) : n \in DOMAIN lastRet})

FreshObj == CHOOSE n \in 1..(Cardinality(UsedObjs) + 1) : n \notin UsedObjs

\* The commits of the branch, newest first; a commit's sha is its position.
History(n) == [i \in 1..n |-> i]

\* Container.git.getLog(repoPath, {limit, ref}): the first `limit` commits
\* (all of them for limit 0), or undefined when there is none.
Container_git_getLog(len, lim, obj) ==
    IF len = 0 THEN undefined
    ELSE LET n == IF lim = 0 THEN len ELSE Min(lim, len)
         IN  [obj |-> obj, commits |-> SubSeq(History(len), 1, n),
              hasMore |-> n < len, count |-> n]

\* GitLog.more(limit | {until}): the log extended by the next page, which
\* starts after the last loaded commit; the same object when `until` is
\* already loaded.
GitLog_more(l, arg, len, obj) ==
    IF arg.until # 0 /\ \E i \in 1..Len(l.commits) : l.commits[i] = arg.until
    THEN l
    ELSE LET last == l.commits[Len(l.commits)]
             to   == IF arg.until # 0
                     THEN (IF arg.until <= len THEN arg.until ELSE len)
                     ELSE (IF arg.limit = 0 THEN len ELSE Min(last + arg.limit, len))
             page == SubSeq(History(len), last + 1, to)
         IN  IF page = <<>>
             THEN [l EXCEPT !.obj = obj, !.hasMore = FALSE]
             ELSE [obj |-> obj, commits |-> l.commits \o page,
                   hasMore |-> to < len, count |-> l.count + Len(page)]

MaxKnownLimit == 3
MaxLimitAhead == 4

\* A getLog that doubles the limit whenever the branch is ahead of it.
GetLogLimit_Double ==
    LET base == IF limit # NoLimit THEN limit
                ELSE IF root THEN PageItemLimit ELSE DefaultItemLimit
    IN  IF base # 0 /\ ahead > base THEN base * 2 ELSE base

\* The limit BranchNode.getLog passes to Container.git.getLog.
GetLogLimit ==
    LET base == IF limit # NoLimit THEN limit
                ELSE IF root THEN PageItemLimit ELSE DefaultItemLimit
    IN  IF base # 0 /\ ahead > base THEN Min(ahead + 1, base * 2) ELSE base

\* The children BranchNode.getChildren builds from a log.
BranchChildren(l, obj) ==
    [obj |-> obj, kind |-> "children", commits |-> l.commits, loadMore |-> l.hasMore]

MessageNode(obj) == [obj |-> obj, kind |-> "message"]

\* History of returned results, for the cache contract.
Nodes == {"BranchNode", "BranchesNode", "CommitNode"}

Returned(n, r) ==
    /\ prevRet' = [prevRet EXCEPT ![n] = lastRet[n]]
    /\ lastRet' = [lastRet EXCEPT ![n] = r]

Invalidated(n) ==
    /\ prevRet' = [prevRet EXCEPT ![n] = undefined]
    /\ lastRet' = [lastRet EXCEPT ![n] = undefined]

\* getChildren(): `if (this._children == null)` fails, the cache is returned.
CallGetChildrenCached(c) ==
    /\ pc[c] = "idle"
    /\ children # undefined
    /\ Returned("BranchNode", children)
    /\ UNCHANGED <<children, log, limit, root, repoLen, ahead, pc, local, lm>>

GetChildrenCached(c) == CallGetChildrenCached(c) /\ UNCHANGED notBranch

\* getChildren(): nothing cached; suspended in `await getBranchAheadRange`.
CallGetChildrenStart(c) ==
    /\ pc[c] = "idle"
    /\ children = undefined
    /\ pc' = [pc EXCEPT ![c] = "getBranchAheadRange"]
    /\ UNCHANGED <<children, log, limit, root, repoLen, ahead, local, lm,
                   prevRet, lastRet>>

GetChildrenStart(c) == CallGetChildrenStart(c) /\ UNCHANGED notBranch

\* getChildren() resumes and enters Promise.all, which calls this.getLog():
\* with no _log, Container.git.getLog is called and awaited.
GetChildrenGetLog(c) ==
    /\ UNCHANGED notBranch
    /\ pc[c] = "getBranchAheadRange"
    /\ IF log = undefined
       THEN /\ pc' = [pc EXCEPT ![c] = "getLog"]
            /\ local' = [local EXCEPT ![c] = [limit |-> GetLogLimit, log |-> undefined]]
       ELSE /\ pc' = [pc EXCEPT ![c] = "promiseAll"]
            /\ local' = [local EXCEPT ![c] = [limit |-> NoLimit, log |-> log]]
    /\ UNCHANGED <<children, log, limit, root, repoLen, ahead, lm,
                   prevRet, lastRet>>

\* getLog() resumes: `this._log = await Container.git.getLog(...)`.
GetChildrenGetLogResume(c) ==
    /\ UNCHANGED notBranch
    /\ pc[c] = "getLog"
    /\ LET fetched == Container_git_getLog(repoLen, local[c].limit, FreshObj)
       IN  /\ log' = fetched
           /\ local' = [local EXCEPT ![c].log = fetched]
    /\ pc' = [pc EXCEPT ![c] = "promiseAll"]
    /\ UNCHANGED <<children, limit, root, repoLen, ahead, lm, prevRet, lastRet>>

\* Promise.all has resolved: a message node when there is no log, else the
\* children are built and cached.
GetChildrenBuild(c) ==
    /\ UNCHANGED notBranch
    /\ pc[c] = "promiseAll"
    /\ IF local[c].log = undefined
       THEN /\ Returned("BranchNode", MessageNode(FreshObj))
            /\ UNCHANGED children
       ELSE /\ children' = BranchChildren(local[c].log, FreshObj)
            /\ Returned("BranchNode", BranchChildren(local[c].log, FreshObj))
    /\ pc' = [pc EXCEPT ![c] = "idle"]
    /\ local' = [local EXCEPT ![c] = [limit |-> NoLimit, log |-> undefined]]
    /\ UNCHANGED <<log, limit, root, repoLen, ahead, lm>>

\* A refresh(reset) that rebuilds the children from the cached log instead of
\* leaving that to the next getChildren().
BranchNode_refresh_Eager(f, reset) ==
    [f EXCEPT !.children = IF reset \/ f.log = undefined THEN undefined
                           ELSE BranchChildren(f.log, FreshObj),
              !.log = IF reset THEN undefined ELSE @]

\* refresh(reset) on the fields it writes.
BranchNode_refresh(f, reset) ==
    [f EXCEPT !.children = undefined, !.log = IF reset THEN undefined ELSE @]

\* refresh(reset)
BranchRefresh(reset) ==
    /\ UNCHANGED notBranch
    /\ children' = BranchNode_refresh([children |-> children, log |-> log], reset).children
    /\ log' = BranchNode_refresh([children |-> children, log |-> log], reset).log
    /\ Invalidated("BranchNode")
    /\ UNCHANGED <<limit, root, repoLen, ahead, pc, local, lm>>

\* getTreeItem(): `this.splatted = false`, then the item is built from the
\* branch, its remote and its pull request.
BranchGetTreeItem ==
    /\ splatted' = FALSE
    /\ UNCHANGED <<treeVars, changeVars, matchVars, findVars, raceVars>>
    /\ UNCHANGED <<annotVars, viewVars, trackVars, xRejected, tFlight, fRevealed, moreVars>>

LmIdle == [pc |-> "idle", log |-> undefined, fetch |-> NoLimit,
           arg |-> [limit |-> 0, until |-> 0]]

\* The argument of loadMore(): a page size (undefined: the page item limit)
\* or {until: ref}.
LoadMoreArgs ==
    {[limit |-> PageItemLimit, until |-> 0]} \cup
    {[limit |-> 0, until |-> u] : u \in 1..MaxRepoLen}

\* loadMore(limit): gated, so one call runs at a time; it calls getLog().
CallLoadMore(arg) ==
    /\ lm.pc = "idle"
    /\ IF log = undefined
       THEN lm' = [pc |-> "getLog", log |-> undefined, fetch |-> GetLogLimit, arg |-> arg]
       ELSE lm' = [pc |-> "gotLog", log |-> log, fetch |-> NoLimit, arg |-> arg]
    /\ UNCHANGED <<children, log, limit, root, repoLen, ahead, pc, local,
                   prevRet, lastRet>>

LoadMoreStart(arg) == CallLoadMore(arg) /\ UNCHANGED notBranch

\* loadMore(): its getLog() resumes and stores the fetched log.
LoadMoreGetLogResume ==
    /\ UNCHANGED notBranch
    /\ lm.pc = "getLog"
    /\ LET fetched == Container_git_getLog(repoLen, lm.fetch, FreshObj)
       IN  /\ log' = fetched
           /\ lm' = [lm EXCEPT !.pc = "gotLog", !.log = fetched]
    /\ UNCHANGED <<children, limit, root, repoLen, ahead, pc, local,
                   prevRet, lastRet>>

\* loadMore() without the `!log.hasMore` return: log.more is awaited whenever
\* there is a log.
LoadMoreMore_Always ==
    /\ UNCHANGED notBranch
    /\ lm.pc = "gotLog"
    /\ IF lm.log = undefined
       THEN lm' = LmIdle
       ELSE lm' = [lm EXCEPT !.pc = "more"]
    /\ UNCHANGED <<children, log, limit, root, repoLen, ahead, pc, local,
                   prevRet, lastRet>>

\* get hasMore(): `this._log?.hasMore ?? true`.
BranchNode_hasMore == IF log = undefined THEN TRUE ELSE log.hasMore

\* loadMore(): `if (log == null || !log.hasMore) return;` else log.more is awaited.
LoadMoreMore ==
    /\ UNCHANGED notBranch
    /\ lm.pc = "gotLog"
    /\ IF lm.log = undefined \/ ~lm.log.hasMore
       THEN lm' = LmIdle
       ELSE lm' = [lm EXCEPT !.pc = "more"]
    /\ UNCHANGED <<children, log, limit, root, repoLen, ahead, pc, local,
                   prevRet, lastRet>>

\* loadMore(): log.more has resolved.
LoadMoreResume ==
    /\ UNCHANGED notBranch
    /\ lm.pc = "more"
    /\ LET more == GitLog_more(lm.log, lm.arg, repoLen, FreshObj)
       IN  IF log = more
           THEN UNCHANGED <<children, log, limit, prevRet, lastRet>>
           ELSE /\ log' = more
                /\ limit' = more.count
                /\ children' = undefined
                /\ Invalidated("BranchNode")
    /\ lm' = LmIdle
    /\ UNCHANGED <<root, repoLen, ahead, pc, local>>

InitBranch ==
    /\ children = undefined
    /\ log = undefined
    /\ limit = NoLimit
    /\ root \in BOOLEAN
    /\ repoLen \in 0..MaxRepoLen
    /\ ahead \in 0..MaxAhead
    /\ pc = [c \in Callers |-> "idle"]
    /\ local = [c \in Callers |-> [limit |-> NoLimit, log |-> undefined]]
    /\ lm = LmIdle
    /\ prevRet = [n \in Nodes |-> undefined]
    /\ lastRet = [n \in Nodes |-> undefined]

(***************************************************************************)
(* BranchesNode                                                            *)
(***************************************************************************)
BranchesList(n, obj) == [obj |-> obj, kind |-> "branches", branches |-> n]

\* getChildren(): the cache is returned.
BranchesGetChildrenCached ==
    /\ UNCHANGED notBranches
    /\ bsPc = "idle"
    /\ bsChildren # undefined
    /\ Returned("BranchesNode", bsChildren)
    /\ UNCHANGED bsVars

\* getChildren(): nothing cached; suspended in `await this.repo.getBranches`.
BranchesGetChildrenStart ==
    /\ UNCHANGED notBranches
    /\ bsPc = "idle"
    /\ bsChildren = undefined
    /\ bsPc' = "getBranches"
    /\ UNCHANGED <<bsChildren, layout, branches, retVars>>

\* getChildren() resumes: a message node for no branch; the branch nodes
\* themselves in list layout; the folder hierarchy, cached, in tree layout.
BranchesGetChildrenResume ==
    /\ UNCHANGED notBranches
    /\ bsPc = "getBranches"
    /\ IF branches = 0
       THEN /\ Returned("BranchesNode", MessageNode(FreshObj))
            /\ UNCHANGED bsChildren
       ELSE IF layout = "list"
       THEN /\ Returned("BranchesNode", BranchesList(branches, FreshObj))
            /\ UNCHANGED bsChildren
       ELSE /\ bsChildren' = BranchesList(branches, FreshObj)
            /\ Returned("BranchesNode", BranchesList(branches, FreshObj))
    /\ bsPc' = "idle"
    /\ UNCHANGED <<layout, branches>>

\* refresh()
BranchesRefresh ==
    /\ UNCHANGED notBranches
    /\ bsChildren' = undefined
    /\ Invalidated("BranchesNode")
    /\ UNCHANGED <<layout, branches, bsPc>>

(***************************************************************************)
(* CommitNode                                                              *)
(***************************************************************************)
CommitChildren(obj) == [obj |-> obj, kind |-> "files"]

\* getChildren(): the file nodes are built from commit.files on every call.
CommitGetChildren ==
    /\ UNCHANGED notCommit
    /\ Returned("CommitNode", CommitChildren(FreshObj))

InitBranches ==
    /\ bsChildren = undefined
    /\ layout \in {"list", "tree"}
    /\ branches \in 0..MaxBranches
    /\ bsPc = "idle"

\* One getChildren() caller, refresh() and loadMore().
(***************************************************************************)
(* Repository change events                                                *)
(***************************************************************************)
MaxChanged == 2

RepositoryChange ==
    {"Config", "Heads", "Index", "Remotes", "Status", "Tags", "Stashes", "Unknown"}

RepositoryChangeComparisonMode == {"Any", "All"}

\* RepositoryChangeEvent.changed(...kinds, mode), e being the kinds that changed.
RepositoryChangeEvent_changed(e, kinds, mode) ==
    IF mode = "Any"
    THEN kinds \cap e # {} \/ "Unknown" \in e
    ELSE kinds \subseteq e

\* The matcher of a node that asks for all of its kinds instead of any.
CommitsRepositoryNode_changed_All(e) ==
    RepositoryChangeEvent_changed(
        e, {"Config", "Heads", "Index", "Remotes", "Status", "Unknown"}, "All")

\* The matcher of a node that also watches Status.
ContributorsRepositoryNode_changed_Status(e) ==
    RepositoryChangeEvent_changed(
        e, {"Config", "Heads", "Remotes", "Status", "Unknown"}, "Any")

\* The matcher of a node that leaves Status out.
BranchesRepositoryNode_changed_NoStatus(e) ==
    RepositoryChangeEvent_changed(e, {"Config", "Heads", "Index", "Remotes", "Unknown"}, "Any")

CommitsRepositoryNode_changed(e) ==
    RepositoryChangeEvent_changed(
        e, {"Config", "Heads", "Index", "Remotes", "Status", "Unknown"}, "Any")

ContributorsRepositoryNode_changed(e) ==
    RepositoryChangeEvent_changed(e, {"Config", "Heads", "Remotes", "Unknown"}, "Any")

BranchesRepositoryNode_changed(e) ==
    RepositoryChangeEvent_changed(
        e, {"Config", "Heads", "Index", "Remotes", "Status", "Unknown"}, "Any")

RemotesRepositoryNode_changed(e) ==
    RepositoryChangeEvent_changed(e, {"Config", "Remotes", "Unknown"}, "Any")

RepoNodes ==
    {"CommitsRepositoryNode", "ContributorsRepositoryNode",
     "BranchesRepositoryNode", "RemotesRepositoryNode"}

\* this.changed(e) of the repository node n
changed(n, e) ==
    CASE n = "CommitsRepositoryNode" -> CommitsRepositoryNode_changed(e)
      [] n = "ContributorsRepositoryNode" -> ContributorsRepositoryNode_changed(e)
      [] n = "BranchesRepositoryNode" -> BranchesRepositoryNode_changed(e)
      [] n = "RemotesRepositoryNode" -> RemotesRepositoryNode_changed(e)

\* getChildren() of a repository node creates its child when it has none.
RepoGetChildren(n) ==
    /\ ~repoChild[n]
    /\ repoChild' = [repoChild EXCEPT ![n] = TRUE]
    /\ UNCHANGED <<subscribed, lastEvent, deliveredTo, invalidatedBy>>
    /\ UNCHANGED notChange

\* ensureSubscription(): a no-op when the node is subscribed.
EnsureSubscription(n) ==
    /\ ~subscribed[n]
    /\ subscribed' = [subscribed EXCEPT ![n] = TRUE]
    /\ UNCHANGED <<repoChild, lastEvent, deliveredTo, invalidatedBy>>
    /\ UNCHANGED notChange

\* The view node's refresh(true) disposes its repository nodes.
RepoDispose(n) ==
    /\ subscribed[n] \/ repoChild[n]
    /\ subscribed' = [subscribed EXCEPT ![n] = FALSE]
    /\ repoChild' = [repoChild EXCEPT ![n] = FALSE]
    /\ UNCHANGED <<lastEvent, deliveredTo, invalidatedBy>>
    /\ UNCHANGED notChange

\* The repository fires a change event: every subscribed node runs
\* onRepositoryChanged(e), which refreshes the node (reset: the child is
\* dropped) when this.changed(e) holds.
OnRepositoryChanged(e) ==
    /\ lastEvent' = e
    /\ deliveredTo' = {n \in RepoNodes : subscribed[n]}
    /\ invalidatedBy' = {n \in RepoNodes : subscribed[n] /\ changed(n, e)}
    /\ repoChild' = [n \in RepoNodes |->
                        IF subscribed[n] /\ changed(n, e) THEN FALSE ELSE repoChild[n]]
    /\ UNCHANGED subscribed
    /\ UNCHANGED notChange

Events == {e \in SUBSET RepositoryChange : e # {} /\ Cardinality(e) <= MaxChanged}

InitChange ==
    /\ repoChild = [n \in RepoNodes |-> FALSE]
    /\ subscribed = [n \in RepoNodes |-> FALSE]
    /\ lastEvent = {}
    /\ deliveredTo = {}
    /\ invalidatedBy = {}

NextChange ==
    \/ \E n \in RepoNodes : RepoGetChildren(n)
    \/ \E n \in RepoNodes : EnsureSubscription(n)
    \/ \E n \in RepoNodes : RepoDispose(n)
    \/ \E e \in Events : OnRepositoryChanged(e)

\* The matcher as a function: every event, every watch set, both modes.
Match ==
    /\ mResult = undefined
    /\ mResult' = [returned |-> RepositoryChangeEvent_changed(mEvent, mWatch, mMode)]
    /\ mNode' = [n \in RepoNodes |-> changed(n, mEvent)]
    /\ UNCHANGED <<mEvent, mWatch, mMode>>
    /\ UNCHANGED notMatch

InitMatch ==
    /\ mEvent \in SUBSET RepositoryChange
    /\ mWatch \in SUBSET RepositoryChange
    /\ mMode \in RepositoryChangeComparisonMode
    /\ mResult = undefined
    /\ mNode = undefined

InitNoMatch ==
    /\ mEvent = {}
    /\ mWatch = {}
    /\ mMode = "Any"
    /\ mResult = undefined
    /\ mNode = undefined

NextMatch == Match

(***************************************************************************)
(* Reveal: the bounded search of a view's tree                             *)
(***************************************************************************)
MaxRepos == 2
MaxFolders == 4

BranchOps ==
    {"BranchesView.findBranch", "RepositoriesView.findBranch"}

RevealOps ==
    {"RepositoriesView.revealRepository", "RepositoriesView.revealBranches",
     "RepositoriesView.revealStashes", "RepositoriesView.revealTags"}

CommitOps ==
    {"BranchesView.findCommit", "CommitsView.findCommit"}

FindOps == BranchOps \cup RevealOps \cup CommitOps

ViewOf(op) ==
    CASE op \in {"BranchesView.findBranch", "BranchesView.findCommit"} -> "BranchesView"
      [] op = "CommitsView.findCommit" -> "CommitsView"
      [] OTHER -> "RepositoriesView"

\* Node ids.  An id is the repository's id followed by the keys of the
\* node; id.startsWith(repoNodeId) holds for the nodes of that repository.
RepositoryNode_getId(repoPath) == [repoPath |-> repoPath, key |-> <<>>]

BranchesNode_getId(repoPath) ==
    [RepositoryNode_getId(repoPath) EXCEPT !.key = @ \o <<":branches">>]

BranchNode_getId(repoPath, name, isRoot) ==
    [RepositoryNode_getId(repoPath) EXCEPT
        !.key = @ \o <<":branch", name>> \o (IF isRoot THEN <<":root">> ELSE <<>>)]

startsWith(id, prefix) ==
    id.repoPath = prefix.repoPath /\ IsPrefix(prefix.key, id.key)

\* A node of a view: its class, its id, node.branch.ref, node.commit.ref and
\* node.remote.name ("" and 0: the node has no such property).
Node(kind, id, branch, commit, remote) ==
    [kind |-> kind, id |-> id, branch |-> branch, commit |-> commit, remote |-> remote]

NoRepo == 0

RootNode(view) ==
    Node(CASE view = "BranchesView" -> "BranchesViewNode"
           [] view = "CommitsView" -> "CommitsViewNode"
           [] OTHER -> "RepositoriesNode",
         RepositoryNode_getId(NoRepo), "", 0, "")

RepositoryNode(kind, r) == Node(kind, RepositoryNode_getId(r), "", 0, "")

ContainerNode(kind, r, key) ==
    Node(kind, [RepositoryNode_getId(r) EXCEPT !.key = <<key>>], "", 0, "")

RemoteNode(r, name) ==
    Node("RemoteNode", [RepositoryNode_getId(r) EXCEPT !.key = <<":remote", name>>],
         "", 0, name)

\* The ref of the branch searched for, and of its counterpart on a remote.
BranchRef(remote) ==
    CASE remote = "" -> "target"
      [] remote = "origin" -> "origin/target"
      [] OTHER -> "upstream/target"

BranchNode(r, ref, remote) ==
    Node("BranchNode", BranchNode_getId(r, ref, FALSE), ref, 0, remote)

\* The k-th folder above the branch: its id ends in its relative path.
FolderNode(r, k, remote) ==
    Node("BranchOrTagFolderNode",
         [RepositoryNode_getId(r) EXCEPT
             !.key = (IF remote = "" THEN <<":branch-folder">>
                      ELSE <<":remote", remote, ":branch-folder">>)
                     \o [i \in 1..k |-> "a"]],
         "", 0, remote)

FolderLevel(n) == Cardinality({i \in DOMAIN n.id.key : n.id.key[i] = "a"})

\* A branch nests under `folders` folders (none in the list layout).
NestedBranch(r, remote) ==
    IF folders = 0 THEN BranchNode(r, BranchRef(remote), remote)
    ELSE FolderNode(r, 1, remote)

\* BranchesNode.getChildren(): the branch nodes, or their hierarchy.
BranchesNodeChildren(r) == <<NestedBranch(r, ""), BranchNode(r, "other", "")>>

\* getChildren() of the nodes whose children do not come from a log.
TreeChildren(n) ==
    LET r == n.id.repoPath
    IN  CASE n.kind = "RepositoriesNode" ->
                 [i \in 1..repos |-> RepositoryNode("RepositoryNode", i)]
          [] n.kind = "RepositoryNode" ->
                 <<ContainerNode("BranchesNode", r, ":branches"),
                   ContainerNode("RemotesNode", r, ":remotes"),
                   ContainerNode("StashesNode", r, ":stashes"),
                   ContainerNode("TagsNode", r, ":tags")>>
          [] n.kind = "BranchesViewNode" ->
                 IF repos = 1 THEN BranchesNodeChildren(1)
                 ELSE [i \in 1..repos |-> RepositoryNode("BranchesRepositoryNode", i)]
          [] n.kind = "CommitsViewNode" ->
                 [i \in 1..repos |-> RepositoryNode("CommitsRepositoryNode", i)]
          [] n.kind \in {"BranchesRepositoryNode", "BranchesNode"} ->
                 BranchesNodeChildren(r)
          [] n.kind = "RemotesNode" -> <<RemoteNode(r, "origin"), RemoteNode(r, "upstream")>>
          [] n.kind = "RemoteNode" -> <<NestedBranch(r, n.remote)>>
          [] n.kind = "BranchOrTagFolderNode" ->
                 IF FolderLevel(n) < folders
                 THEN <<FolderNode(r, FolderLevel(n) + 1, n.remote)>>
                 ELSE <<BranchNode(r, BranchRef(n.remote), n.remote)>>
          [] OTHER -> <<>>

\* The nodes a BranchNode's getChildren() result holds.
BranchNodeChildren(ret, r, ref) ==
    IF ret.kind = "message"
    THEN <<Node("MessageNode", BranchNode_getId(r, ref, root), "", 0, "")>>
    ELSE [i \in 1..Len(ret.commits) |->
             Node("CommitNode", BranchNode_getId(r, ref, root), ref, ret.commits[i], "")]
         \o (IF ret.loadMore
             THEN <<Node("LoadMoreNode", BranchNode_getId(r, ref, root), "", 0, "")>>
             ELSE <<>>)

\* The node whose getChildren() returns the children of the BranchNode that
\* holds the log: that BranchNode, or in the Commits view the repository node
\* (and the root with one repository), which return child.getChildren().
ReturnsBranchChildren(n) ==
    \/ n = BranchNode(fTarget.repo, "target", "")
    \/ n.kind = "CommitsRepositoryNode" /\ n.id.repoPath = fTarget.repo
    \/ n.kind = "CommitsViewNode" /\ repos = 1

\* maxDepth of each search
BranchesView_findBranch_maxDepth == 4

BranchesView_findCommit_maxDepth == 5

RepositoriesView_findBranch_remote_maxDepth == 6

\* A mutant of maxDepth: one level more.
RepositoriesView_findBranch_maxDepth_Deeper == 5 + 1

RepositoriesView_findBranch_maxDepth == 5

RepositoriesView_revealRepository_maxDepth == 1

RepositoriesView_revealBranches_maxDepth == 2

RepositoriesView_revealStashes_maxDepth == 2

RepositoriesView_revealTags_maxDepth == 2

CommitsView_findCommit_maxDepth == 2

maxDepth ==
    CASE fOp = "BranchesView.findBranch" -> BranchesView_findBranch_maxDepth
      [] fOp = "BranchesView.findCommit" -> BranchesView_findCommit_maxDepth
      [] fOp = "RepositoriesView.findBranch" ->
             IF fTarget.remote THEN RepositoriesView_findBranch_remote_maxDepth
             ELSE RepositoriesView_findBranch_maxDepth
      [] fOp = "RepositoriesView.revealRepository" -> RepositoriesView_revealRepository_maxDepth
      [] fOp = "RepositoriesView.revealBranches" -> RepositoriesView_revealBranches_maxDepth
      [] fOp = "RepositoriesView.revealStashes" -> RepositoriesView_revealStashes_maxDepth
      [] fOp = "RepositoriesView.revealTags" -> RepositoriesView_revealTags_maxDepth
      [] fOp = "CommitsView.findCommit" -> CommitsView_findCommit_maxDepth

\* allowPaging: passed as true by the find operations, left out by the reveals.
allowPaging == fOp \in BranchOps \cup CommitOps

\* The ref the search looks for.
TargetRef == BranchRef(IF fTarget.remote THEN "origin" ELSE "")

\* The predicate of each search.
predicate(n) ==
    CASE fOp \in BranchOps -> n.branch # "" /\ n.branch = TargetRef
      [] fOp \in CommitOps -> n.commit # 0 /\ n.commit = fTarget.commit
      [] fOp = "RepositoriesView.revealRepository" ->
             n.id = RepositoryNode_getId(fTarget.repo)
      [] fOp = "RepositoriesView.revealBranches" -> n.id = BranchesNode_getId(fTarget.repo)
      [] fOp = "RepositoriesView.revealStashes" ->
             n.id = [RepositoryNode_getId(fTarget.repo) EXCEPT !.key = <<":stashes">>]
      [] fOp = "RepositoriesView.revealTags" ->
             n.id = [RepositoryNode_getId(fTarget.repo) EXCEPT !.key = <<":tags">>]

\* What canTraverse answers: whether to descend, and whether it awaited
\* node.loadMore({ until: commit.ref }) first.
Traverse(b) == [traverse |-> b, loadMore |-> FALSE]

TraversePaged == [traverse |-> TRUE, loadMore |-> TRUE]

\* Mutants of canTraverse: one that does not compare the repository, one that
\* never descends into a BranchNode.
BranchesView_findBranch_canTraverse_AnyRepo(n, repoNodeId) ==
    Traverse(n.kind \in {"BranchesViewNode", "BranchesRepositoryNode", "BranchOrTagFolderNode"})

BranchesView_findCommit_canTraverse_NoBranch(n, repoNodeId) ==
    IF n.kind = "BranchesViewNode" THEN Traverse(TRUE)
    ELSE IF n.kind \in {"BranchesRepositoryNode", "BranchOrTagFolderNode"}
    THEN Traverse(startsWith(n.id, repoNodeId))
    ELSE Traverse(FALSE)

BranchesView_findBranch_canTraverse(n, repoNodeId) ==
    IF n.kind = "BranchesViewNode" THEN Traverse(TRUE)
    ELSE IF n.kind \in {"BranchesRepositoryNode", "BranchOrTagFolderNode"}
    THEN Traverse(startsWith(n.id, repoNodeId))
    ELSE Traverse(FALSE)

\* The branches the commit is on: Container.git.getCommitBranches.
CommitBranches == {"target"}

BranchesView_findCommit_canTraverse(n, repoNodeId) ==
    IF n.kind = "BranchesViewNode" THEN Traverse(TRUE)
    ELSE IF n.kind \in {"BranchesRepositoryNode", "BranchOrTagFolderNode"}
    THEN Traverse(startsWith(n.id, repoNodeId))
    ELSE IF n.kind = "BranchNode" /\ n.branch \in CommitBranches
    THEN TraversePaged
    ELSE Traverse(FALSE)

RepositoriesView_findBranch_remote_canTraverse(n, repoNodeId) ==
    IF n.kind = "RepositoriesNode" THEN Traverse(TRUE)
    ELSE IF n.kind = "RemoteNode"
    THEN (IF ~startsWith(n.id, repoNodeId) THEN Traverse(FALSE)
          ELSE Traverse(n.remote = "origin"))
    ELSE IF n.kind \in {"RepositoryNode", "BranchesNode", "RemotesNode", "BranchOrTagFolderNode"}
    THEN Traverse(startsWith(n.id, repoNodeId))
    ELSE Traverse(FALSE)

RepositoriesView_findBranch_canTraverse(n, repoNodeId) ==
    IF n.kind = "RepositoriesNode" THEN Traverse(TRUE)
    ELSE IF n.kind \in {"RepositoryNode", "BranchesNode", "BranchOrTagFolderNode"}
    THEN Traverse(startsWith(n.id, repoNodeId))
    ELSE Traverse(FALSE)

RepositoriesView_revealBranches_canTraverse(n, repoNodeId) ==
    IF n.kind = "RepositoriesNode" THEN Traverse(TRUE)
    ELSE IF n.kind = "RepositoryNode" THEN Traverse(startsWith(n.id, repoNodeId))
    ELSE Traverse(FALSE)

RepositoriesView_revealRepository_canTraverse(n, repoNodeId) ==
    Traverse(n.kind = "RepositoriesNode")

\* In the Commits view canTraverse pages the splatted BranchNode: the child of
\* the repository node, itself the splatted child of the root with one
\* repository.
CommitsView_findCommit_canTraverse(n, repoNodeId) ==
    IF n.kind = "CommitsViewNode"
    THEN (IF repos = 1 THEN TraversePaged ELSE Traverse(TRUE))
    ELSE IF n.kind = "CommitsRepositoryNode" /\ startsWith(n.id, repoNodeId)
    THEN TraversePaged
    ELSE IF n.kind = "BranchTrackingStatusNode"
    THEN Traverse(startsWith(n.id, repoNodeId))
    ELSE Traverse(FALSE)

canTraverse(n) ==
    LET repoNodeId == RepositoryNode_getId(fTarget.repo)
    IN  CASE fOp = "BranchesView.findBranch" -> BranchesView_findBranch_canTraverse(n, repoNodeId)
          [] fOp = "BranchesView.findCommit" -> BranchesView_findCommit_canTraverse(n, repoNodeId)
          [] fOp = "RepositoriesView.findBranch" ->
                 IF fTarget.remote
                 THEN RepositoriesView_findBranch_remote_canTraverse(n, repoNodeId)
                 ELSE RepositoriesView_findBranch_canTraverse(n, repoNodeId)
          [] fOp = "RepositoriesView.revealRepository" ->
                 RepositoriesView_revealRepository_canTraverse(n, repoNodeId)
          [] fOp \in {"RepositoriesView.revealBranches", "RepositoriesView.revealStashes",
                      "RepositoriesView.revealTags"} ->
                 RepositoriesView_revealBranches_canTraverse(n, repoNodeId)
          [] fOp = "CommitsView.findCommit" -> CommitsView_findCommit_canTraverse(n, repoNodeId)

\* findNode returns.
FindDone(r) ==
    /\ fResult' = r
    /\ fPc' = "done"
    /\ fQueue' = <<>>
    /\ fNode' = undefined

\* What loadMore is called with while searching for a commit.
FindLoadMoreArg ==
    IF fTarget.commit # 0 THEN [limit |-> 0, until |-> fTarget.commit]
    ELSE [limit |-> PageItemLimit, until |-> 0]

\* A find or reveal operation starts its search at the root of its view.
\* BranchesView.findBranch returns undefined for a remote branch.
FindStart ==
    /\ fPc = "idle"
    /\ IF fOp = "BranchesView.findBranch" /\ fTarget.remote
       THEN FindDone(undefined)
       ELSE /\ fQueue' = <<[node |-> RootNode(ViewOf(fOp)), depth |-> 0]>>
            /\ fPc' = "next"
            /\ UNCHANGED <<fNode, fResult>>
    /\ UNCHANGED <<fOp, repos, folders, fTarget, token, fCalled, fPruned>>
    /\ UNCHANGED <<branchVars, retVars, notBranchNorFind>>

\* The next node of the queue is visited: the token is checked, a node deeper
\* than maxDepth ends the search, the predicate is evaluated, then canTraverse,
\* which may await loadMore on the BranchNode.
FindVisit ==
    /\ fPc = "next"
    /\ UNCHANGED <<fOp, repos, folders, fTarget, token, fCalled>>
    /\ UNCHANGED <<retVars, notBranchNorFind>>
    /\ IF token \/ fQueue = <<>> \/ Head(fQueue).depth > maxDepth
       THEN FindDone(undefined) /\ UNCHANGED <<fPruned, branchVars>>
       ELSE LET e == Head(fQueue)
                t == canTraverse(e.node)
            IN  IF predicate(e.node)
                THEN FindDone(e.node) /\ UNCHANGED <<fPruned, branchVars>>
                ELSE /\ fQueue' = Tail(fQueue)
                     /\ fResult' = fResult
                     /\ IF ~t.traverse
                        THEN /\ fPruned' = fPruned \cup {e.node}
                             /\ fPc' = "next"
                             /\ fNode' = undefined
                             /\ UNCHANGED branchVars
                        ELSE /\ fPruned' = fPruned
                             /\ fNode' = [node |-> e.node, depth |-> e.depth, paged |-> FALSE]
                             /\ IF t.loadMore
                                THEN /\ fPc' = "loadMore"
                                     /\ CallLoadMore(FindLoadMoreArg)
                                ELSE /\ fPc' = "getChildren"
                                     /\ UNCHANGED branchVars

\* The awaited loadMore has returned.
FindLoadMoreResume ==
    /\ fPc = "loadMore"
    /\ lm.pc = "idle"
    /\ fPc' = "getChildren"
    /\ UNCHANGED <<fOp, repos, folders, fTarget, fQueue, fNode, fResult, token,
                   fCalled, fPruned>>
    /\ UNCHANGED <<branchVars, retVars, notBranchNorFind>>

Enqueue(kids, depth) == fQueue \o [i \in 1..Len(kids) |-> [node |-> kids[i], depth |-> depth]]

\* node.getChildren() is called and awaited.
FindGetChildren ==
    /\ fPc = "getChildren"
    /\ fCalled' = fCalled \cup {[node |-> fNode.node, depth |-> fNode.depth]}
    /\ UNCHANGED <<fOp, repos, folders, fTarget, fResult, token, fPruned>>
    /\ UNCHANGED notBranchNorFind
    /\ IF ReturnsBranchChildren(fNode.node)
       THEN /\ CallGetChildrenCached(2) \/ CallGetChildrenStart(2)
            /\ fPc' = "children"
            /\ UNCHANGED <<fQueue, fNode>>
       ELSE /\ fQueue' = Enqueue(TreeChildren(fNode.node), fNode.depth + 1)
            /\ fPc' = "next"
            /\ fNode' = undefined
            /\ UNCHANGED <<branchVars, retVars>>

\* getChildren() has returned the children of the BranchNode.  A pageable node
\* (the BranchNode) is searched at once; with no match and more to load,
\* loadMore is called for the target and the node is searched again before
\* the search gives up on it.  The children of another node join the queue.
FindChildren ==
    /\ fPc = "children"
    /\ pc[2] = "idle"
    /\ UNCHANGED <<fOp, repos, folders, fTarget, token, fCalled, fPruned>>
    /\ UNCHANGED <<retVars, notBranchNorFind>>
    /\ LET kids == BranchNodeChildren(lastRet["BranchNode"], fTarget.repo, "target")
           hasMore == IF log = undefined THEN TRUE ELSE log.hasMore
       IN  IF fNode.node.kind = "BranchNode"
           THEN IF \E i \in 1..Len(kids) : predicate(kids[i])
                THEN /\ FindDone(CHOOSE k \in {kids[i] : i \in 1..Len(kids)} : predicate(k))
                     /\ UNCHANGED branchVars
                ELSE IF allowPaging /\ hasMore /\ ~fNode.paged
                THEN IF token
                     THEN FindDone(undefined) /\ UNCHANGED branchVars
                     ELSE /\ CallLoadMore(FindLoadMoreArg)
                          /\ fPc' = "loadMore"
                          /\ fNode' = [fNode EXCEPT !.paged = TRUE]
                          /\ UNCHANGED <<fQueue, fResult>>
                ELSE /\ fPc' = "next"
                     /\ fNode' = undefined
                     /\ UNCHANGED <<fQueue, fResult, branchVars>>
           ELSE /\ fQueue' = Enqueue(kids, fNode.depth + 1)
                /\ fPc' = "next"
                /\ fNode' = undefined
                /\ UNCHANGED <<fResult, branchVars>>

\* Whether the operation hands a token to findNode: the find operations do,
\* revealBranches, revealRepository, revealStashes and revealTags do not.
PassesToken(op) == op \notin RevealOps

\* The user cancels the reveal, while the search is suspended in an await.
Cancel ==
    /\ fPc \in {"next", "loadMore", "children"}
    /\ PassesToken(fOp)
    /\ ~token
    /\ token' = TRUE
    /\ UNCHANGED <<fOp, repos, folders, fTarget, fPc, fQueue, fNode, fResult,
                   fCalled, fPruned>>
    /\ UNCHANGED <<branchVars, retVars, notBranchNorFind>>

\* A reveal without the `node == null` return: it reveals the view's root
\* when the search returned no node.
Reveal_Always ==
    /\ fPc = "done"
    /\ fPc' = "revealed"
    /\ fRevealed' = IF fResult = undefined THEN RootNode(ViewOf(fOp)) ELSE fResult
    /\ UNCHANGED <<fOp, repos, folders, fTarget, fQueue, fNode, fResult, token,
                   fCalled, fPruned, xRejected, tFlight, splatted, moreVars>>
    /\ UNCHANGED <<treeVars, changeVars, matchVars, raceVars, annotVars, viewVars, trackVars>>

\* The search has returned: the reveal operation returns undefined when it
\* got no node, else it reveals the node and returns it.
Reveal ==
    /\ fPc = "done"
    /\ fPc' = "revealed"
    /\ fRevealed' = fResult
    /\ UNCHANGED <<fOp, repos, folders, fTarget, fQueue, fNode, fResult, token,
                   fCalled, fPruned, xRejected, tFlight, splatted, moreVars>>
    /\ UNCHANGED <<treeVars, changeVars, matchVars, raceVars, annotVars, viewVars, trackVars>>

InitFindIdle ==
    /\ fOp = "RepositoriesView.revealRepository"
    /\ repos = 1
    /\ folders = 0
    /\ fTarget = [repo |-> 1, remote |-> FALSE, commit |-> 0]
    /\ fPc = "idle"
    /\ fQueue = <<>>
    /\ fNode = undefined
    /\ fResult = undefined
    /\ token = FALSE
    /\ fCalled = {}
    /\ fPruned = {}

\* The inputs of a search: the operation, the shape of the tree, the target.
InitFind ==
    /\ fOp \in FindOps
    /\ repos \in 1..MaxRepos
    /\ folders \in 0..MaxFolders
    /\ fTarget \in [repo : 1..repos,
                    remote : IF fOp \in BranchOps THEN BOOLEAN ELSE {FALSE},
                    commit : IF fOp \in CommitOps THEN 1..MaxRepoLen ELSE {0}]
    /\ fPc = "idle"
    /\ fQueue = <<>>
    /\ fNode = undefined
    /\ fResult = undefined
    /\ token = FALSE
    /\ fCalled = {}
    /\ fPruned = {}

\* The BranchNode of the search: the root BranchNode in the Commits view; no
\* log is read when a branch or a container is searched for.
InitFindBranch ==
    /\ InitBranch
    /\ root = (ViewOf(fOp) = "CommitsView")
    /\ ahead = 0
    /\ fOp \notin CommitOps => repoLen = 0

NextFind ==
    \/ FindStart
    \/ FindVisit
    \/ FindLoadMoreResume
    \/ FindGetChildren
    \/ FindChildren
    \/ Cancel
    \/ GetChildrenGetLog(2)
    \/ GetChildrenGetLogResume(2)
    \/ GetChildrenBuild(2)
    \/ LoadMoreGetLogResume
    \/ LoadMoreMore
    \/ LoadMoreResume

(***************************************************************************)
(* LineAnnotationController.getPullRequests and Promises.raceAll           *)
(***************************************************************************)
MaxRefs == 2
MaxLines == 3

CommitRefs == 1..MaxRefs

running == [running |-> TRUE]

\* What a promise that rejected holds.
rejected == [rejected |-> TRUE]

PullRequest(ref) == [pr |-> ref]

\* The placeholder of a lookup that had not settled when the timeout fired: a
\* cancellation error that carries the key and the promise.
CancellationErrorWithId(id) == [cancelled |-> TRUE, id |-> id, promise |-> id]

RECURSIVE AddAll(_, _)
\* A Set keeps the first of equal values, in insertion order.
AddAll(set, values) ==
    IF values = <<>> THEN set
    ELSE AddAll(IF \E i \in 1..Len(set) : set[i] = Head(values)
                THEN set ELSE Append(set, Head(values)),
                Tail(values))

\* A mutant of the refs: the ref of every line, repeated ones too.
Refs_Repeated(lines) == lines

\* refs: `for (const [, commit] of lines) refs.add(commit.ref)`
Refs(lines) == AddAll(<<>>, lines)

\* Promises.raceAll(ids, fn, timeout): one entry per id, holding what the
\* promise of the id settled with before the timeout, else the placeholder.
Promises_raceAll(ids, promises) ==
    [entries |->
        [i \in 1..Len(ids) |->
            [key |-> ids[i],
             value |-> IF promises[ids[i]] = running
                       THEN CancellationErrorWithId(ids[i])
                       ELSE promises[ids[i]]]]]

\* getPullRequests(): `if (prs.size === 0 || every(pr == null)) return undefined`
GetPullRequestsReturn(prs) ==
    IF \/ Len(prs.entries) = 0
       \/ \A i \in 1..Len(prs.entries) : prs.entries[i].value = undefined
    THEN undefined ELSE prs

\* getPullRequests(): no line; else the rich remote provider is awaited.
GetPullRequests ==
    /\ rPc = "idle"
    /\ IF Len(rLines) = 0
       THEN rPc' = "done" /\ rPrs' = undefined
       ELSE rPc' = "getRichRemoteProvider" /\ rPrs' = rPrs
    /\ UNCHANGED <<rLines, rProvider, rLookup, raceMap, rAtReturn>>
    /\ UNCHANGED notRace

\* getPullRequests(): no provider; else raceAll starts a lookup per ref.
GetPullRequestsRaceAll ==
    /\ rPc = "getRichRemoteProvider"
    /\ IF ~rProvider \/ Len(Refs(rLines)) = 0
       THEN rPc' = "done" /\ rPrs' = undefined /\ UNCHANGED rLookup
       ELSE /\ rPc' = "raceAll"
            /\ rPrs' = rPrs
            /\ rLookup' = [ref \in CommitRefs |->
                              IF \E i \in 1..Len(rLines) : rLines[i] = ref
                              THEN running ELSE rLookup[ref]]
    /\ UNCHANGED <<rLines, rProvider, raceMap, rAtReturn>>
    /\ UNCHANGED notRace

\* Container.git.getPullRequestForCommit(ref) settles, with a pull request or
\* with none; it may do so after raceAll has returned.
Settle(ref, pr) ==
    /\ rPc \in {"raceAll", "done"}
    /\ rLookup[ref] = running
    /\ rLookup' = [rLookup EXCEPT ![ref] = pr]
    /\ UNCHANGED <<rLines, rProvider, rPc, raceMap, rAtReturn, rPrs>>
    /\ UNCHANGED notRace

\* raceAll returns, every lookup having settled or the timeout having fired,
\* and getPullRequests returns the map unless it holds no pull request.
RaceAllReturn ==
    /\ rPc = "raceAll"
    /\ LET prs == Promises_raceAll(Refs(rLines), rLookup)
       IN  /\ raceMap' = prs
           /\ rPrs' = GetPullRequestsReturn(prs)
    /\ rAtReturn' = [promises |-> rLookup]
    /\ rPc' = "done"
    /\ UNCHANGED <<rLines, rProvider, rLookup>>
    /\ UNCHANGED notRace

RECURSIVE SeqsUpTo(_, _)
SeqsUpTo(S, n) ==
    IF n = 0 THEN {<<>>}
    ELSE LET shorter == SeqsUpTo(S, n - 1)
         IN  shorter \cup {Append(q, x) : q \in shorter, x \in S}

InitRaceIdle ==
    /\ rLines = <<>>
    /\ rProvider = FALSE
    /\ rPc = "idle"
    /\ rLookup = [ref \in CommitRefs |-> undefined]
    /\ raceMap = undefined
    /\ rAtReturn = undefined
    /\ rPrs = undefined

InitRace ==
    /\ rLines \in SeqsUpTo(CommitRefs, MaxLines)
    /\ rProvider \in BOOLEAN
    /\ rPc = "idle"
    /\ rLookup = [ref \in CommitRefs |-> undefined]
    /\ raceMap = undefined
    /\ rAtReturn = undefined
    /\ rPrs = undefined

NextRace ==
    \/ GetPullRequests
    \/ GetPullRequestsRaceAll
    \/ \E ref \in CommitRefs : \E pr \in {PullRequest(ref), undefined} : Settle(ref, pr)
    \/ RaceAllReturn

(***************************************************************************)
(* LineAnnotationController: refresh, clear, waitForAnyPendingPullRequests  *)
(***************************************************************************)
MaxRenders == 2
MaxEditors == 2
MaxSelections == 2

Editors == 1..MaxEditors

\* The refresh calls of the environment; the follow-up refresh of the r-th.
Renders == 1..MaxRenders

FollowUp(r) == r + MaxRenders

Procs == 1..(2 * MaxRenders)

notStarted == [notStarted |-> TRUE]

\* editor.setDecorations(annotationDecoration, [])
NoDecorations == [by |-> 0, prs |-> <<>>]

\* prs.get(ref)
Map_get(m, k) ==
    IF m # undefined /\ \E i \in 1..Len(m.entries) : m.entries[i].key = k
    THEN m.entries[CHOOSE i \in 1..Len(m.entries) : m.entries[i].key = k].value
    ELSE undefined

\* pr instanceof Promises.CancellationError
IsCancellationError(entry) == entry.value = CancellationErrorWithId(entry.key)

IdleProc ==
    [pc |-> "idle", editor |-> 0, opts |-> undefined, lines |-> <<>>, prs |-> undefined,
     token |-> 0, wpc |-> "none", widx |-> 0, resolved |-> <<>>]

\* clearAnnotations(editor)
clearAnnotations(decor, e) ==
    IF e = 0 THEN decor ELSE [decor EXCEPT ![e] = NoDecorations]

\* clear(editor), on the controller state st = [editor, cancelled, decor].
clear(st, e) ==
    [editor |-> st.editor,
     cancelled |-> IF cToken = 0 THEN st.cancelled ELSE st.cancelled \cup {cToken},
     decor |-> clearAnnotations(IF st.editor # e /\ st.editor # 0
                                THEN clearAnnotations(st.decor, st.editor)
                                ELSE st.decor, e)]

Controller == [editor |-> cEditor, cancelled |-> cCancelled, decor |-> cDecor]

\* refresh(editor, options) up to its first await: the controller state it
\* leaves and whether it goes on.  valid: selections != null && isTextEditor.
RefreshPrefix(e, valid) ==
    IF e = 0 /\ cEditor = 0 THEN [st |-> Controller, pc |-> "done"]
    ELSE IF e = 0 \/ ~valid THEN [st |-> clear(Controller, cEditor), pc |-> "done"]
    ELSE LET st1 == IF cEditor # e
                    THEN [clear(Controller, cEditor) EXCEPT !.editor = e]
                    ELSE Controller
         IN  IF cSuspended
             THEN [st |-> clear(st1, e), pc |-> "done"]
             ELSE [st |-> st1, pc |-> "getOrAdd"]

\* The refreshes whose waitForAnyPendingPullRequests is suspended in an await.
Waiting == {p \in Procs : proc[p].wpc = "await"}

SetController(st) ==
    /\ cEditor' = st.editor
    /\ cCancelled' = st.cancelled
    /\ cDecor' = st.decor

\* refresh(editor): called by a configuration, authentication, toggle or
\* active lines event.
Refresh(e, valid) ==
    /\ \E r \in Renders :
           /\ proc[r].pc = "idle"
           /\ \A q \in Renders : q < r => proc[q].pc # "idle"
           /\ LET pre == RefreshPrefix(e, valid)
              IN  /\ proc' = [proc EXCEPT ![r] = [IdleProc EXCEPT !.pc = pre.pc, !.editor = e]]
                  /\ SetController(pre.st)
    /\ cStale' = cStale \cup Waiting
    /\ UNCHANGED <<cToken, cSuspended, cCfg, cLookup, cFired, cChained>>
    /\ UNCHANGED notAnnot

\* clear(editor): also what onActiveLinesChanged does for a pending change.
Clear(e) ==
    /\ SetController(clear(Controller, e))
    /\ cStale' = cStale \cup Waiting
    /\ UNCHANGED <<cToken, cSuspended, cCfg, proc, cLookup, cFired, cChained>>
    /\ UNCHANGED notAnnot

\* suspend()
Suspend ==
    /\ ~cSuspended
    /\ cSuspended' = TRUE
    /\ UNCHANGED <<cEditor, cToken, cCancelled, cCfg, proc, cLookup, cDecor, cFired,
                   cStale, cChained>>
    /\ UNCHANGED notAnnot

\* resume()
Resume ==
    /\ cSuspended
    /\ cSuspended' = FALSE
    /\ UNCHANGED <<cEditor, cToken, cCancelled, cCfg, proc, cLookup, cDecor, cFired,
                   cStale, cChained>>
    /\ UNCHANGED notAnnot

\* this.getPullRequests(repoPath, lines, {timeout}) up to its first await.
GetPullRequestsCall(lines) ==
    IF Len(lines) = 0 THEN [pc |-> "all", prs |-> undefined]
    ELSE [pc |-> "getRichRemoteProvider", prs |-> undefined]

\* A mutant of the choice: the lookups are issued whatever the options hold.
RefreshPrs_Again(opts, lines) == GetPullRequestsCall(lines)

\* `options?.prs ?? this.getPullRequests(...)`
RefreshPrs(opts, lines) ==
    IF opts # undefined THEN [pc |-> "all", prs |-> opts]
    ELSE GetPullRequestsCall(lines)

\* refresh() resumes from `await Container.tracker.getOrAdd`.
RefreshGetOrAdd(p, blameable, current) ==
    /\ proc[p].pc = "getOrAdd"
    /\ IF ~blameable /\ cSuspended
       THEN /\ SetController(clear(Controller, proc[p].editor))
            /\ proc' = [proc EXCEPT ![p].pc = "done"]
            /\ cStale' = cStale \cup Waiting
       ELSE /\ UNCHANGED <<cEditor, cCancelled, cDecor, cStale>>
            /\ IF ~current
               THEN proc' = [proc EXCEPT ![p].pc = "done"]
               ELSE LET next == IF cCfg.enabled
                                THEN RefreshPrs(proc[p].opts, cCfg.lines)
                                ELSE [pc |-> "all", prs |-> undefined]
                    IN  proc' = [proc EXCEPT ![p].pc = next.pc, ![p].prs = next.prs,
                                             ![p].lines = cCfg.lines]
    /\ UNCHANGED <<cToken, cSuspended, cCfg, cLookup, cFired, cChained>>
    /\ UNCHANGED notAnnot

\* getPullRequests() resumes from `await getRichRemoteProvider`; raceAll
\* starts a lookup per ref.
RefreshGetProvider(p) ==
    /\ proc[p].pc = "getRichRemoteProvider"
    /\ IF ~cCfg.provider \/ Len(Refs(proc[p].lines)) = 0
       THEN /\ proc' = [proc EXCEPT ![p].pc = "all"]
            /\ UNCHANGED cLookup
       ELSE /\ proc' = [proc EXCEPT ![p].pc = "raceAll"]
            /\ cLookup' = [cLookup EXCEPT ![p] =
                              [ref \in CommitRefs |->
                                  IF \E i \in 1..Len(proc[p].lines) : proc[p].lines[i] = ref
                                  THEN running ELSE notStarted]]
    /\ UNCHANGED <<cEditor, cToken, cCancelled, cSuspended, cCfg, cDecor, cFired,
                   cStale, cChained>>
    /\ UNCHANGED notAnnot

\* A getPullRequestForCommit promise settles.
LookupSettle(p, ref, pr) ==
    /\ cLookup[p][ref] = running
    /\ cLookup' = [cLookup EXCEPT ![p][ref] = pr]
    /\ UNCHANGED <<cEditor, cToken, cCancelled, cSuspended, cCfg, proc, cDecor, cFired,
                   cStale, cChained>>
    /\ UNCHANGED notAnnot

\* A getPullRequestForCommit promise rejects after the timeout, when raceAll
\* has returned the placeholder that carries the promise.
LookupReject(p, ref) ==
    /\ cLookup[p][ref] = running
    /\ proc[p].pc \in {"all", "done"}
    /\ cLookup' = [cLookup EXCEPT ![p][ref] = rejected]
    /\ UNCHANGED <<cEditor, cToken, cCancelled, cSuspended, cCfg, proc, cDecor, cFired,
                   cStale, cChained>>
    /\ UNCHANGED notAnnot

\* raceAll returns and getPullRequests with it.
RefreshRaceAllReturn(p) ==
    /\ proc[p].pc = "raceAll"
    /\ proc' = [proc EXCEPT
           ![p].pc = "all",
           ![p].prs = GetPullRequestsReturn(Promises_raceAll(Refs(proc[p].lines), cLookup[p]))]
    /\ UNCHANGED <<cEditor, cToken, cCancelled, cSuspended, cCfg, cLookup, cDecor, cFired,
                   cStale, cChained>>
    /\ UNCHANGED notAnnot

\* Iterables.count(prs.values(), pr => pr instanceof Promises.CancellationError)
PendingCount(prs) ==
    Cardinality({i \in 1..Len(prs.entries) : IsCancellationError(prs.entries[i])})

\* A mutant of the loop: it stops after the first entry it awaited.
NextPending_First(entries, i) ==
    IF i = 0 /\ \E j \in 1..Len(entries) : IsCancellationError(entries[j])
    THEN CHOOSE j \in 1..Len(entries) :
             /\ IsCancellationError(entries[j])
             /\ \A k \in 1..(j - 1) : ~IsCancellationError(entries[k])
    ELSE 0

\* The next entry after the i-th that the loop has to await (0: none).
NextPending(entries, i) ==
    IF \E j \in (i + 1)..Len(entries) : IsCancellationError(entries[j])
    THEN CHOOSE j \in (i + 1)..Len(entries) :
             /\ IsCancellationError(entries[j])
             /\ \A k \in (i + 1)..(j - 1) : ~IsCancellationError(entries[k])
    ELSE 0

\* A mutant of the resolved value: the entry as raceAll returned it.
ResolvedValue_Kept(entry, promises) == entry.value

\* `value instanceof Promises.CancellationError ? await value.promise : value`
ResolvedValue(entry, promises) ==
    IF IsCancellationError(entry) THEN promises[entry.key] ELSE entry.value

\* resolved, once the loop has passed the first n entries.
Resolved(entries, promises, n) ==
    [i \in 1..n |-> [key |-> entries[i].key, value |-> ResolvedValue(entries[i], promises)]]

\* refresh() resumes from `await Promise.all`: a token is issued and the wait
\* for the pending pull requests starts when there is a map; the decorations
\* are set.
RefreshRender(p) ==
    /\ proc[p].pc = "all"
    /\ LET prs == proc[p].prs
           e   == proc[p].editor
           first == NextPending(prs.entries, 0)
       IN  /\ IF prs = undefined
              THEN /\ proc' = [proc EXCEPT ![p].pc = "done"]
                   /\ UNCHANGED <<cToken, cCancelled, cChained>>
              ELSE /\ cCancelled' = IF cToken = 0 THEN cCancelled ELSE cCancelled \cup {cToken}
                   /\ cToken' = cToken + 1
                   /\ IF PendingCount(prs) = 0
                      THEN /\ proc' = [proc EXCEPT ![p].pc = "done", ![p].token = cToken + 1,
                                                   ![p].wpc = "done"]
                           /\ UNCHANGED cChained
                      ELSE IF p \notin Renders
                      THEN /\ proc' = [proc EXCEPT ![p].pc = "done", ![p].token = cToken + 1,
                                                   ![p].wpc = "done"]
                           /\ cChained' = TRUE
                      ELSE /\ proc' = [proc EXCEPT
                                  ![p].pc = "done", ![p].token = cToken + 1,
                                  ![p].wpc = "await", ![p].widx = first,
                                  ![p].resolved = Resolved(prs.entries, cLookup[p], first - 1)]
                           /\ UNCHANGED cChained
           /\ cDecor' = [cDecor EXCEPT ![e] =
                           [by |-> p,
                            prs |-> [i \in 1..Len(proc[p].lines) |->
                                        Map_get(prs, proc[p].lines[i])]]]
    /\ UNCHANGED <<cEditor, cSuspended, cCfg, cLookup, cFired, cStale>>
    /\ UNCHANGED notAnnot

\* waitForAnyPendingPullRequests() resumes from `await value.promise`: the
\* await of a promise that rejected throws, and nothing in the method catches
\* it.  Else it goes on to the next pending entry, or, with none left, calls
\* the follow-up refresh unless the token is cancelled or the editor is not
\* current.
WaitResume(p, valid) ==
    /\ proc[p].wpc = "await"
    /\ cLookup[p][proc[p].prs.entries[proc[p].widx].key] # running
    /\ LET entries == proc[p].prs.entries
           next == NextPending(entries, proc[p].widx)
           resolved == Resolved(entries, cLookup[p], Len(entries))
           pre == RefreshPrefix(proc[p].editor, valid)
       IN  IF cLookup[p][entries[proc[p].widx].key] = rejected
           THEN /\ proc' = [proc EXCEPT ![p].wpc = "threw"]
                /\ UNCHANGED <<cEditor, cCancelled, cDecor, cFired, cStale>>
           ELSE IF next # 0
           THEN /\ proc' = [proc EXCEPT ![p].widx = next,
                                        ![p].resolved = Resolved(entries, cLookup[p], next - 1)]
                /\ UNCHANGED <<cEditor, cCancelled, cDecor, cFired, cStale>>
           ELSE IF proc[p].token \in cCancelled \/ proc[p].editor # cEditor
           THEN /\ proc' = [proc EXCEPT ![p].wpc = "done", ![p].resolved = resolved]
                /\ UNCHANGED <<cEditor, cCancelled, cDecor, cFired, cStale>>
           ELSE /\ proc' = [proc EXCEPT
                       ![p].wpc = "done", ![p].resolved = resolved,
                       ![FollowUp(p)] = [IdleProc EXCEPT !.pc = pre.pc,
                                                         !.editor = proc[p].editor,
                                                         !.opts = [entries |-> resolved]]]
                /\ SetController(pre.st)
                /\ cFired' = cFired \cup {p}
                /\ cStale' = cStale \cup (Waiting \ {p})
    /\ UNCHANGED <<cToken, cSuspended, cCfg, cLookup, cChained>>
    /\ UNCHANGED notAnnot

\* The commit refs of the selected lines; which commit is named 1 and which 2
\* makes no difference, so the first ref met is 1.
Selections ==
    {l \in SeqsUpTo(CommitRefs, MaxSelections) :
        \A i \in 1..Len(Refs(l)) : Refs(l)[i] = i}

InitAnnotIdle ==
    /\ cEditor = 0
    /\ cToken = 0
    /\ cCancelled = {}
    /\ cSuspended = FALSE
    /\ cCfg = [lines |-> <<>>, provider |-> FALSE, enabled |-> FALSE]
    /\ proc = [p \in Procs |-> IdleProc]
    /\ cLookup = [p \in Procs |-> [ref \in CommitRefs |-> notStarted]]
    /\ cDecor = [e \in Editors |-> NoDecorations]
    /\ cFired = {}
    /\ cStale = {}
    /\ cChained = FALSE

InitAnnot ==
    /\ cEditor = 0
    /\ cToken = 0
    /\ cCancelled = {}
    /\ cSuspended \in BOOLEAN
    /\ cCfg \in [lines : Selections, provider : BOOLEAN, enabled : BOOLEAN]
    /\ proc = [p \in Procs |-> IdleProc]
    /\ cLookup = [p \in Procs |-> [ref \in CommitRefs |-> notStarted]]
    /\ cDecor = [e \in Editors |-> NoDecorations]
    /\ cFired = {}
    /\ cStale = {}
    /\ cChained = FALSE

\* The steps of the refreshes and of their waits.
NextRefreshSteps ==
    \/ \E p \in Procs, blameable \in BOOLEAN, current \in BOOLEAN :
           RefreshGetOrAdd(p, blameable, current)
    \/ \E p \in Procs : RefreshGetProvider(p)
    \/ \E p \in Procs, ref \in CommitRefs :
           \E pr \in {PullRequest(ref), undefined} : LookupSettle(p, ref, pr)
    \/ \E p \in Procs : RefreshRaceAllReturn(p)
    \/ \E p \in Procs : RefreshRender(p)
    \/ \E p \in Procs, valid \in BOOLEAN : WaitResume(p, valid)

\* The events of the environment.  Which editor is named 1 makes no
\* difference, so the first editor the controller shows is 1.
NextFollowUp ==
    \/ \E e \in Editors \cup {0}, valid \in BOOLEAN : e <= cEditor + 1 /\ Refresh(e, valid)
    \/ \E e \in Editors \cup {0} : e <= cEditor + 1 /\ Clear(e)
    \/ NextRefreshSteps

NextAnnot ==
    \/ NextFollowUp
    \/ Suspend
    \/ Resume

\* ---------------------------------------------------------------------------
\* The root node of a view and its repository nodes
\* (ContributorsViewNode, BranchesViewNode, CommitsViewNode).

MaxViewCallers == 2

MaxNodes == 4

Views == {"BranchesView", "ContributorsView", "CommitsView"}

ViewCallers == 1..MaxViewCallers

ViewNodes == 1..MaxNodes

IdleCall == [pc |-> "idle", child |-> 0]

\* The nodes a children field holds.
Held(ch) == IF ch = undefined THEN {} ELSE {ch.nodes[i] : i \in 1..Len(ch.nodes)}

\* new XRepositoryNode(...), new BranchesNode(...), new BranchNode(...): the
\* dropped children that nobody disposed are then out of reach.
Materialize(n, dropped) ==
    /\ vObjs + n <= MaxNodes
    /\ vObjs' = vObjs + n
    /\ vDropped' = dropped
    /\ vLeaked' = vLeaked \cup (dropped \ vDisposed)

\* The root's getChildren() from `if (this.children.length === 1)` on, up to
\* the await of the one child's repository or to `return this.children`.
ViewWithChildren(c, ch) ==
    /\ vCall' = [vCall EXCEPT ![c] =
                    IF Len(ch.nodes) = 1
                    THEN [pc |-> "getBranches", child |-> ch.nodes[1]]
                    ELSE IdleCall]
    /\ vOnDisposed' = IF Len(ch.nodes) # 1 /\ Held(ch) \cap vDisposed # {}
                      THEN vOnDisposed \cup {"returned"}
                      ELSE vOnDisposed

\* The root's getChildren() up to its first await.
ViewGetChildren(c) ==
    /\ vCall[c].pc = "idle"
    /\ IF vChildren = undefined
       THEN /\ vCall' = [vCall EXCEPT ![c].pc = "getOrderedRepositories"]
            /\ UNCHANGED vOnDisposed
       ELSE ViewWithChildren(c, vChildren)
    /\ UNCHANGED <<vView, vChildren, vChild, vSubscribed, vDisposed, vObjs, vDropped,
                   vLeaked, notView>>

\* getOrderedRepositories() yielded n repositories: the root makes their nodes
\* its children, whatever its children are by now.
ViewGetOrderedRepositories(c, n) ==
    /\ vCall[c].pc = "getOrderedRepositories"
    /\ IF n = 0
       THEN /\ vCall' = [vCall EXCEPT ![c] = IdleCall]
            /\ UNCHANGED <<vChildren, vObjs, vDropped, vLeaked, vOnDisposed>>
       ELSE /\ Materialize(n, vDropped \cup Held(vChildren))
            /\ vChildren' = [nodes |-> [i \in 1..n |-> vObjs + i]]
            /\ ViewWithChildren(c, vChildren')
    /\ UNCHANGED <<vView, vChild, vSubscribed, vDisposed, notView>>

\* SubscribeableViewNode.ensureSubscription(): nothing new when the node holds
\* a subscription already.
RepositoryNode_ensureSubscription(node) ==
    /\ vSubscribed' = vSubscribed \cup {node}
    /\ vOnDisposed' = IF node \in vDisposed
                      THEN vOnDisposed \cup {"ensureSubscription"}
                      ELSE vOnDisposed

\* The repository node's getChildren(): it materializes its child when it has
\* none.
RepositoryNode_getChildren(node) ==
    /\ IF vChild[node] = 0
       THEN /\ Materialize(1, vDropped)
            /\ vChild' = [vChild EXCEPT ![node] = vObjs + 1]
       ELSE UNCHANGED <<vChild, vObjs, vDropped, vLeaked>>
    /\ vOnDisposed' = IF node \in vDisposed
                      THEN vOnDisposed \cup {"getChildren"}
                      ELSE vOnDisposed

\* The one child's repository answered: without branches (contributors) the
\* root subscribes the child and returns nothing, else it returns the child's
\* children.
ViewGetBranches(c, empty) ==
    /\ vCall[c].pc = "getBranches"
    /\ vCall' = [vCall EXCEPT ![c] = IdleCall]
    /\ IF empty /\ vView # "CommitsView"
       THEN /\ RepositoryNode_ensureSubscription(vCall[c].child)
            /\ UNCHANGED <<vChild, vObjs, vDropped, vLeaked>>
       ELSE /\ RepositoryNode_getChildren(vCall[c].child)
            /\ UNCHANGED vSubscribed
    /\ UNCHANGED <<vView, vChildren, vDisposed, notView>>

\* dispose() of repository nodes: each disposes its child and releases its
\* subscription.
RepositoryNode_dispose(f, nodes) ==
    [f EXCEPT !.disposed = @ \cup nodes \cup ({vChild[n] : n \in nodes} \ {0}),
              !.subscribed = @ \ nodes]

\* The root's refresh(reset) on the fields it writes.
ViewNode_refresh(f, reset) ==
    IF reset /\ f.children # undefined
    THEN [RepositoryNode_dispose(f, Held(f.children)) EXCEPT
              !.children = undefined, !.dropped = @ \cup Held(f.children)]
    ELSE f

\* The root with its nodes' state.
ViewFields ==
    [children |-> vChildren, disposed |-> vDisposed, subscribed |-> vSubscribed,
     dropped |-> vDropped]

\* The root's refresh(reset).
ViewRefresh(reset) ==
    /\ vChildren' = ViewNode_refresh(ViewFields, reset).children
    /\ vDisposed' = ViewNode_refresh(ViewFields, reset).disposed
    /\ vSubscribed' = ViewNode_refresh(ViewFields, reset).subscribed
    /\ vDropped' = ViewNode_refresh(ViewFields, reset).dropped
    /\ UNCHANGED <<vView, vChild, vObjs, vCall, vLeaked, vOnDisposed, notView>>

\* CommitsRepositoryNode.refresh(reset).
CommitsRepositoryNode_refresh(node, reset) ==
    /\ vView = "CommitsView"
    /\ node \in Held(vChildren)
    /\ IF reset
       THEN /\ vChild' = [vChild EXCEPT ![node] = 0]
            /\ vDropped' = vDropped \cup ({vChild[node]} \ {0})
       ELSE UNCHANGED <<vChild, vDropped>>
    /\ RepositoryNode_ensureSubscription(node)
    /\ UNCHANGED <<vView, vChildren, vDisposed, vObjs, vCall, vLeaked, notView>>

InitViewIdle ==
    /\ vView = "CommitsView"
    /\ vChildren = undefined
    /\ vChild = [n \in ViewNodes |-> 0]
    /\ vSubscribed = {}
    /\ vDisposed = {}
    /\ vObjs = 0
    /\ vCall = [c \in ViewCallers |-> IdleCall]
    /\ vDropped = {}
    /\ vLeaked = {}
    /\ vOnDisposed = {}

InitView ==
    /\ vView \in Views
    /\ vChildren = undefined
    /\ vChild = [n \in ViewNodes |-> 0]
    /\ vSubscribed = {}
    /\ vDisposed = {}
    /\ vObjs = 0
    /\ vCall = [c \in ViewCallers |-> IdleCall]
    /\ vDropped = {}
    /\ vLeaked = {}
    /\ vOnDisposed = {}

NextView ==
    \/ \E c \in ViewCallers : ViewGetChildren(c)
    \/ \E c \in ViewCallers, n \in 0..MaxRepos : ViewGetOrderedRepositories(c, n)
    \/ \E c \in ViewCallers, empty \in BOOLEAN : ViewGetBranches(c, empty)
    \/ \E reset \in BOOLEAN : ViewRefresh(reset)
    \/ \E node \in ViewNodes, reset \in BOOLEAN : CommitsRepositoryNode_refresh(node, reset)

\* ---------------------------------------------------------------------------
\* A subscribeable node with one child: FileHistoryTrackerNode,
\* LineHistoryTrackerNode, CommitsRepositoryNode.

MaxChildren == 3

MaxHandles == 3

MaxDisposes == 2

MaxFlights == 2

SubscribeableNodes == {"FileHistoryTrackerNode", "LineHistoryTrackerNode", "CommitsRepositoryNode"}

NoKids == [child |-> 0, objs |-> 0, disposed |-> [o \in 1..MaxChildren |-> 0]]

NoSubs == [sub |-> 0, handles |-> 0, released |-> [h \in 1..(MaxHandles + 1) |-> 0],
           lineTracker |-> FALSE, timer |-> FALSE]

\* resetChild() with the child kept in the field.
resetChild_Kept(k) ==
    IF k.child = 0 THEN k ELSE [k EXCEPT !.disposed[k.child] = @ + 1]

\* resetChild()
resetChild(k) ==
    IF k.child = 0 THEN k ELSE [k EXCEPT !.disposed[k.child] = @ + 1, !.child = 0]

\* this._child = new FileHistoryNode(...)
newChild(k) == [k EXCEPT !.child = k.objs + 1, !.objs = k.objs + 1]

\* SubscribeableViewNode.unsubscribe(): the handle held is disposed, and with
\* it the line tracker's entry for the node and the interval.
unsubscribe(s) ==
    IF s.sub = 0
    THEN s
    ELSE [s EXCEPT !.released[s.sub] = @ + 1, !.sub = 0, !.lineTracker = FALSE,
                   !.timer = FALSE]

NewHandle(s) == [s EXCEPT !.sub = s.handles + 1, !.handles = s.handles + 1]

\* subscribe() of the three nodes; lastFetched: whether the repository was
\* fetched and the update interval is positive.
subscribe(s, kind, lastFetched) ==
    CASE kind = "FileHistoryTrackerNode" -> NewHandle(s)
      [] kind = "LineHistoryTrackerNode" ->
             IF s.lineTracker THEN s ELSE [NewHandle(s) EXCEPT !.lineTracker = TRUE]
      [] kind = "CommitsRepositoryNode" -> [NewHandle(s) EXCEPT !.timer = lastFetched]

\* SubscribeableViewNode.ensureSubscription()
ensureSubscription(s, can, kind, lastFetched) ==
    IF ~can THEN unsubscribe(s)
    ELSE IF s.sub # 0 THEN s
    ELSE subscribe(s, kind, lastFetched)

\* SubscribeableViewNode.resetSubscription()
resetSubscription(s, can, kind, lastFetched) ==
    ensureSubscription(unsubscribe(s), can, kind, lastFetched)

\* The interval's callback with the subscription replaced in place.
Interval_Resubscribe(s, can, kind, lastFetched, differs) ==
    IF differs THEN subscribe(s, kind, lastFetched) ELSE s

\* The callback of Functions.interval in CommitsRepositoryNode.subscribe().
Interval(s, can, kind, lastFetched, differs) ==
    IF differs THEN resetSubscription(s, can, kind, lastFetched) ELSE s

\* Any step but dispose() ends a run of dispose() calls.
Acted ==
    /\ tRun' = 0
    /\ tLog' = <<>>
    /\ tSubs'.handles <= MaxHandles
    /\ tKids'.objs <= MaxChildren
    /\ UNCHANGED <<tKind, notTrack>>

\* getTreeItem(): `this.splatted = false`, then the item is built; the line
\* tracker ensures its subscription.
NodeGetTreeItem(lastFetched) ==
    /\ splatted' = FALSE
    /\ IF tKind = "LineHistoryTrackerNode"
       THEN /\ tSubs' = ensureSubscription(tSubs, tCan, tKind, lastFetched)
            /\ UNCHANGED tUnensured
       ELSE /\ tUnensured' = tUnensured \cup {"getTreeItem"}
            /\ UNCHANGED tSubs
    /\ tRun' = 0
    /\ tLog' = <<>>
    /\ tSubs'.handles <= MaxHandles
    /\ UNCHANGED <<tKind, tKids, tCan, tGet>>
    /\ UNCHANGED <<earlyVars, annotVars, viewVars, xRejected, tFlight, fRevealed, moreVars>>

\* getChildren() up to its await, or to its end when it has none.
NodeGetChildren(c, hasUri, awaits) ==
    /\ tGet[c] = "idle"
    /\ tUnensured' = tUnensured \cup {"getChildren"}
    /\ IF tKids.child # 0 \/ ~hasUri
       THEN UNCHANGED <<tKids, tGet>>
       ELSE IF awaits \/ tKind = "CommitsRepositoryNode"
            THEN /\ tGet' = [tGet EXCEPT ![c] = "getBranch"]
                 /\ UNCHANGED tKids
            ELSE /\ tKids' = newChild(tKids)
                 /\ UNCHANGED tGet
    /\ UNCHANGED <<tSubs, tCan>>
    /\ Acted

\* getChildren() from its await on: the child is constructed, unless the
\* repository has no branch (CommitsRepositoryNode).
NodeGetChildrenResume(c, branch) ==
    /\ tGet[c] = "getBranch"
    /\ tGet' = [tGet EXCEPT ![c] = "idle"]
    /\ IF branch \/ tKind # "CommitsRepositoryNode"
       THEN tKids' = newChild(tKids)
       ELSE UNCHANGED tKids
    /\ UNCHANGED <<tSubs, tCan, tUnensured>>
    /\ Acted

\* refresh(reset); moved: whether the trackers find another document to show.
NodeRefresh(reset, moved, lastFetched) ==
    /\ IF tKind = "CommitsRepositoryNode"
       THEN /\ tKids' = IF reset THEN [tKids EXCEPT !.child = 0] ELSE tKids
            /\ tSubs' = ensureSubscription(tSubs, tCan, tKind, lastFetched)
       ELSE /\ tKids' = IF reset \/ moved THEN resetChild(tKids) ELSE tKids
            /\ UNCHANGED tSubs
    /\ UNCHANGED <<tCan, tGet, tUnensured>>
    /\ Acted

\* setEditorFollowing(enabled): the canSubscribe setter ensures the
\* subscription when the value changes.
NodeSetEditorFollowing(enabled) ==
    /\ tKind # "CommitsRepositoryNode"
    /\ tCan' = enabled
    /\ tSubs' = IF enabled = tCan THEN tSubs ELSE ensureSubscription(tSubs, enabled, tKind, FALSE)
    /\ UNCHANGED <<tKids, tGet, tUnensured>>
    /\ Acted

\* A tick of the interval of CommitsRepositoryNode's subscription.
NodeInterval(differs, lastFetched) ==
    /\ tSubs.timer
    /\ tSubs' = Interval(tSubs, tCan, tKind, lastFetched, differs)
    /\ UNCHANGED <<tKids, tCan, tGet, tUnensured>>
    /\ Acted

\* dispose(): the trackers call super.dispose() and then resetChild(); a
\* repository node disposes its child and then releases its subscription.
NodeDispose ==
    /\ tRun < MaxDisposes
    /\ tRun' = tRun + 1
    /\ tSubs' = unsubscribe(tSubs)
    /\ tKids' = resetChild(tKids)
    /\ tLog' = tLog \o
               (IF tKind = "CommitsRepositoryNode"
                THEN (IF tKids' # tKids THEN <<"child">> ELSE <<>>) \o
                     (IF tSubs' # tSubs THEN <<"subscription">> ELSE <<>>)
                ELSE (IF tSubs' # tSubs THEN <<"subscription">> ELSE <<>>) \o
                     (IF tKids' # tKids THEN <<"child">> ELSE <<>>))
    /\ UNCHANGED <<tKind, tCan, tGet, tUnensured, notTrack>>

InitTrackIdle ==
    /\ tKind = "CommitsRepositoryNode"
    /\ tKids = NoKids
    /\ tSubs = NoSubs
    /\ tCan = TRUE
    /\ tRun = 0
    /\ tLog = <<>>
    /\ tGet = [c \in ViewCallers |-> "idle"]
    /\ tUnensured = {}

InitTrack ==
    /\ tKind \in SubscribeableNodes
    /\ tKids = NoKids
    /\ tSubs = NoSubs
    /\ tCan = TRUE
    /\ tRun = 0
    /\ tLog = <<>>
    /\ tGet = [c \in ViewCallers |-> "idle"]
    /\ tUnensured = {}

NextTrack ==
    \/ \E lastFetched \in BOOLEAN : NodeGetTreeItem(lastFetched)
    \/ \E c \in ViewCallers, hasUri \in BOOLEAN, awaits \in BOOLEAN :
           NodeGetChildren(c, hasUri, awaits)
    \/ \E c \in ViewCallers, branch \in BOOLEAN : NodeGetChildrenResume(c, branch)
    \/ \E reset \in BOOLEAN, moved \in BOOLEAN, lastFetched \in BOOLEAN :
           NodeRefresh(reset, moved, lastFetched)
    \/ \E enabled \in BOOLEAN : NodeSetEditorFollowing(enabled)
    \/ \E differs \in BOOLEAN, lastFetched \in BOOLEAN : NodeInterval(differs, lastFetched)
    \/ NodeDispose

\* ---------------------------------------------------------------------------
\* Data access that fails while a node computes its children.

\* BranchNode.getChildren(): the promise it awaits rejects (getBranchAheadRange,
\* getLog, getStatusForRepo, ...); nothing catches it, so the call rejects.
GetChildrenReject(c) ==
    /\ pc[c] \in {"getBranchAheadRange", "getLog", "promiseAll"}
    /\ pc' = [pc EXCEPT ![c] = "idle"]
    /\ local' = [local EXCEPT ![c] = [limit |-> NoLimit, log |-> undefined]]
    /\ xRejected' = xRejected \cup {"BranchNode"}
    /\ UNCHANGED <<tFlight, fRevealed, splatted, moreVars>>
    /\ UNCHANGED <<children, log, limit, root, repoLen, ahead, lm, retVars, bsVars,
                   expanded, notFail>>

\* BranchesNode.getChildren(): repo.getBranches rejects.
BranchesGetChildrenReject ==
    /\ bsPc = "getBranches"
    /\ bsPc' = "idle"
    /\ xRejected' = xRejected \cup {"BranchesNode"}
    /\ UNCHANGED <<tFlight, fRevealed, splatted, moreVars>>
    /\ UNCHANGED <<bsChildren, layout, branches, branchVars, retVars, expanded, notFail>>

\* ---------------------------------------------------------------------------
\* refresh() of the subscribeable nodes, call by call.

NoFlight == [n |-> 0, joined |-> FALSE]

\* refresh() without its gate: every call starts an execution.
gate_None(flight) == TRUE

\* @gate(): a call starts an execution only when none is in flight; else it
\* gets the promise of the one in flight, whatever its arguments.
gate(flight) == flight.n = 0

\* What the steps of refresh() leave alone.
RefreshActed ==
    /\ tRun' = 0
    /\ tLog' = <<>>
    /\ tKids'.objs <= MaxChildren
    /\ tSubs'.handles <= MaxHandles
    /\ UNCHANGED <<tKind, tCan, tGet, tUnensured, notGate>>

\* refresh(reset) is called: through the gate, it runs up to its first await.
NodeRefreshCall(reset) ==
    /\ IF gate(tFlight)
       THEN /\ tFlight' = [tFlight EXCEPT !.n = @ + 1]
            /\ tKids' = IF ~reset THEN tKids
                        ELSE IF tKind = "CommitsRepositoryNode"
                        THEN [tKids EXCEPT !.child = 0]
                        ELSE resetChild(tKids)
       ELSE /\ tFlight' = [tFlight EXCEPT !.joined = TRUE]
            /\ UNCHANGED tKids
    /\ tFlight'.n <= MaxFlights
    /\ UNCHANGED tSubs
    /\ RefreshActed

\* refresh() resumes and returns: the trackers reset the child when they
\* show another document, the repository node has ensured its subscription.
NodeRefreshResume(moved, lastFetched) ==
    /\ tFlight.n > 0
    /\ tFlight' = [n |-> tFlight.n - 1, joined |-> FALSE]
    /\ IF tKind = "CommitsRepositoryNode"
       THEN /\ tSubs' = ensureSubscription(tSubs, tCan, tKind, lastFetched)
            /\ UNCHANGED tKids
       ELSE /\ tKids' = IF moved THEN resetChild(tKids) ELSE tKids
            /\ UNCHANGED tSubs
    /\ RefreshActed

NextGate ==
    \/ \E reset \in BOOLEAN : NodeRefreshCall(reset)
    \/ \E moved \in BOOLEAN, lastFetched \in BOOLEAN : NodeRefreshResume(moved, lastFetched)
    \/ \E c \in ViewCallers, hasUri \in BOOLEAN, awaits \in BOOLEAN :
           NodeGetChildren(c, hasUri, awaits)
    \/ \E c \in ViewCallers, branch \in BOOLEAN : NodeGetChildrenResume(c, branch)
    \/ \E lastFetched \in BOOLEAN : NodeGetTreeItem(lastFetched)

\* ---------------------------------------------------------------------------
\* The reveal methods of a view behind `@gate(() => '')`.

MaxRevealCallers == 2

RevealCallers == 1..MaxRevealCallers

RevealMethods == {"revealBranch", "revealCommit"}

\* The resolver of the gate, `() => ''`: the key of a call, whatever its
\* arguments.
RevealGateKey(ref) == 0

IdleReveal == [pc |-> "idle", method |-> "", ref |-> 0, awaits |-> 0, result |-> undefined]

\* The node a reveal resolves to: the BranchNode of the branch, the CommitNode
\* of the commit.
RevealedNode(method, ref) == [method |-> method, ref |-> ref]

\* revealBranch(branch) or revealCommit(commit) is called: through the gate,
\* the call starts an operation when none is in flight for the method and the
\* key, and else gets the promise of the one in flight.
RevealCall(c, method, ref) ==
    /\ rvCall[c].pc = "idle"
    /\ LET key == RevealGateKey(ref)
           inFlight == {f \in rvFlight : f.method = method /\ f.key = key}
       IN  IF inFlight = {}
           THEN /\ rvFlight' = rvFlight \cup {[method |-> method, key |-> key, ref |-> ref]}
                /\ rvCall' = [rvCall EXCEPT ![c] =
                       [pc |-> "await", method |-> method, ref |-> ref, awaits |-> ref,
                        result |-> undefined]]
           ELSE /\ UNCHANGED rvFlight
                /\ rvCall' = [rvCall EXCEPT ![c] =
                       [pc |-> "await", method |-> method, ref |-> ref,
                        awaits |-> (CHOOSE f \in inFlight : TRUE).ref,
                        result |-> undefined]]
    /\ UNCHANGED notShare

\* An operation in flight settles, with the node of its target or with
\* undefined; every call that holds its promise resumes with that result.
RevealSettle(f, found) ==
    /\ f \in rvFlight
    /\ rvFlight' = rvFlight \ {f}
    /\ rvCall' = [c \in RevealCallers |->
           IF rvCall[c].pc = "await" /\ rvCall[c].method = f.method /\ rvCall[c].awaits = f.ref
           THEN [rvCall[c] EXCEPT !.pc = "done",
                                  !.result = IF found THEN RevealedNode(f.method, f.ref)
                                             ELSE undefined]
           ELSE rvCall[c]]
    /\ UNCHANGED notShare

\* The caller has taken the result.
RevealReturn(c) ==
    /\ rvCall[c].pc = "done"
    /\ rvCall' = [rvCall EXCEPT ![c] = IdleReveal]
    /\ UNCHANGED rvFlight
    /\ UNCHANGED notShare

InitShare ==
    /\ rvFlight = {}
    /\ rvCall = [c \in RevealCallers |-> IdleReveal]

NextShare ==
    \/ \E c \in RevealCallers, method \in RevealMethods, ref \in CommitRefs :
           RevealCall(c, method, ref)
    \/ \E f \in rvFlight, found \in BOOLEAN : RevealSettle(f, found)
    \/ \E c \in RevealCallers : RevealReturn(c)

\* ---------------------------------------------------------------------------
\* Node ids as the strings the code builds; a string is the sequence of its
\* characters.

MaxNameLen == 2

MaxGen == 1

Places == {1, 2}

\* The characters of a branch name; git allows no ':' in a ref name.
NameChars == {"a", "(", ")"}

BranchNames == UNION {[1..n -> NameChars] : n \in 1..MaxNameLen}

\* RepositoryNode.getId(repoPath), with the repository path a digit.
RepositoryNode_getId_Str(repoPath) ==
    <<"r", "e", "p", "o", "(">> \o <<IF repoPath = 1 THEN "1" ELSE "2">> \o <<")">>

\* BranchesNode.getId(repoPath)
BranchesNode_getId_Str(repoPath) ==
    RepositoryNode_getId_Str(repoPath) \o <<":", "b", "r", "a", "n", "c", "h", "e", "s">>

\* A getId that leaves out the root flag.
BranchNode_getId_NoRoot(repoPath, name, isRoot) ==
    RepositoryNode_getId_Str(repoPath) \o <<":", "b", "r", "a", "n", "c", "h">>
        \o <<"(">> \o name \o <<")">>

\* BranchNode.getId(repoPath, name, root)
BranchNode_getId_Str(repoPath, name, isRoot) ==
    RepositoryNode_getId_Str(repoPath) \o <<":", "b", "r", "a", "n", "c", "h">>
        \o <<"(">> \o name \o <<")">>
        \o (IF isRoot THEN <<":", "r", "o", "o", "t">> ELSE <<>>)

\* The entities a place can show: a branch of a repository as a root or not,
\* or the branches of a repository.
Entities ==
    [kind : {"BranchNode"}, repo : 1..2, name : BranchNames, root : BOOLEAN]
        \cup [kind : {"BranchesNode"}, repo : 1..2, name : {<<>>}, root : {FALSE}]

\* get id()
Node_id(e) ==
    IF e.kind = "BranchNode" THEN BranchNode_getId_Str(e.repo, e.name, e.root)
    ELSE BranchesNode_getId_Str(e.repo)

\* The parent's getChildren() constructs the node of an entity.
IdMaterialize(place, e) ==
    /\ nodeIds[place] = undefined
    /\ nodeIds' = [nodeIds EXCEPT ![place] = [entity |-> e, id |-> Node_id(e), was |-> Node_id(e),
                                      gen |-> 0]]
    /\ UNCHANGED notIds

\* refresh() or loadMore(), then getChildren(): the node of the entity is
\* constructed again, or the node kept reads its id again.
IdRefresh(place) ==
    /\ nodeIds[place] # undefined
    /\ nodeIds[place].gen < MaxGen
    /\ nodeIds' = [nodeIds EXCEPT ![place] = [entity |-> @.entity, id |-> Node_id(@.entity),
                                      was |-> @.id, gen |-> @.gen + 1]]
    /\ UNCHANGED notIds

\* The entity is gone: the branch was deleted.
IdDrop(place) ==
    /\ nodeIds[place] # undefined
    /\ nodeIds' = [nodeIds EXCEPT ![place] = undefined]
    /\ UNCHANGED notIds

InitIds == nodeIds = [place \in Places |-> undefined]

NextIds ==
    \/ \E place \in Places, e \in Entities : IdMaterialize(place, e)
    \/ \E place \in Places : IdRefresh(place)
    \/ \E place \in Places : IdDrop(place)

\* ---------------------------------------------------------------------------
\* FileHistoryTrackerNode with the uri and the base its child is built from.

MaxUris == 2

MaxBuilt == 3

\* unknownGitUri is 0.
Uris == 1..MaxUris

\* _base: undefined is 0.
Bases == 0..1

NotBuilt == [uri |-> 0, base |-> 0]

\* setUri(): this._uri = uri ?? unknownGitUri
setUri(f, uri) == [f EXCEPT !.uri = uri]

\* resetChild() of the tracker: the child is disposed and the field unset.
FileHistory_resetChild(f) ==
    IF f.child = 0 THEN f
    ELSE [f EXCEPT !.disposed = @ \cup {f.child}, !.child = 0]

\* this._child = new FileHistoryNode(fileUri, this.view, this, branch)
FileHistory_newChild(f, built) ==
    [f EXCEPT !.child = f.objs + 1, !.objs = f.objs + 1, !.built[f.objs + 1] = built]

\* getChildren(): with no child and a uri, fileUri is made of the uri and the
\* base; the branch is awaited unless the sha is a commit's, and then the
\* child is constructed from fileUri.
FileHistoryGetChildren(c, awaits) ==
    /\ fh.get[c].pc = "idle"
    /\ fh.child = 0
    /\ fh.uri # 0
    /\ fh.objs < MaxBuilt
    /\ LET fileUri == [uri |-> fh.uri, base |-> fh.base]
       IN  IF awaits
           THEN fh' = [fh EXCEPT !.get[c] = [pc |-> "getBranch", fileUri |-> fileUri]]
           ELSE fh' = FileHistory_newChild(fh, fileUri)
    /\ UNCHANGED notUri

\* getChildren() resumes from `await Container.git.getBranch`.
FileHistoryGetChildrenResume(c) ==
    /\ fh.get[c].pc = "getBranch"
    /\ fh.objs < MaxBuilt
    /\ fh' = [FileHistory_newChild(fh, fh.get[c].fileUri) EXCEPT
                 !.get[c] = [pc |-> "idle", fileUri |-> NotBuilt]]
    /\ UNCHANGED notUri

\* refresh(reset) up to `await GitUri.fromUri`; editor: the uri of the active
\* editor's document (0: none, or not trackable); visible: a visible editor
\* shows this.uri.
FileHistoryRefresh(reset, editor, visible) ==
    /\ fh.refresh = 0
    /\ LET f1 == IF reset THEN FileHistory_resetChild(setUri(fh, 0)) ELSE fh
       IN  IF editor = 0
           THEN fh' = IF f1.uri = 0 \/ visible THEN f1
                      ELSE FileHistory_resetChild(setUri(f1, 0))
           ELSE IF editor = f1.uri
           THEN fh' = f1
           ELSE fh' = [f1 EXCEPT !.refresh = editor]
    /\ UNCHANGED notUri

\* refresh() resumes from its awaits: the uri of the editor's document is set
\* unless it is the one shown.
FileHistoryRefreshResume ==
    /\ fh.refresh # 0
    /\ LET f1 == [fh EXCEPT !.refresh = 0]
       IN  fh' = IF fh.uri # 0 /\ fh.refresh = fh.uri THEN f1
                 ELSE FileHistory_resetChild(setUri(f1, fh.refresh))
    /\ UNCHANGED notUri

\* changeBase(), from the pick on: the base is set, and with a child the uri
\* is unset before the change is triggered.
FileHistoryChangeBase(base) ==
    /\ fh' = IF fh.child = 0 THEN [fh EXCEPT !.base = base]
             ELSE setUri([fh EXCEPT !.base = base], 0)
    /\ fh' # fh
    /\ UNCHANGED notUri

\* showHistoryForUri(uri): setUri(uri), then the change is triggered.
FileHistoryShowHistoryForUri(uri) ==
    /\ fh' = setUri(fh, uri)
    /\ fh' # fh
    /\ UNCHANGED notUri

InitUriIdle ==
    fh = [uri |-> 0, base |-> 0, child |-> 0, objs |-> 0,
          built |-> [o \in 1..MaxBuilt |-> NotBuilt], disposed |-> {},
          get |-> [c \in ViewCallers |-> [pc |-> "idle", fileUri |-> NotBuilt]],
          refresh |-> 0]

NextUri ==
    \/ \E c \in ViewCallers, awaits \in BOOLEAN : FileHistoryGetChildren(c, awaits)
    \/ \E c \in ViewCallers : FileHistoryGetChildrenResume(c)
    \/ \E reset \in BOOLEAN, editor \in Uris \cup {0}, visible \in BOOLEAN :
           FileHistoryRefresh(reset, editor, visible)
    \/ FileHistoryRefreshResume
    \/ \E base \in Bases : FileHistoryChangeBase(base)
    \/ \E uri \in Uris : FileHistoryShowHistoryForUri(uri)

\* ---------------------------------------------------------------------------
\* LineAnnotationController: enabled, suspended and the line tracker.

MaxRefreshCalls == 4

\* get suspended(): `!this._enabled || this._suspended`
suspended(f) == ~f.enabled \/ f.suspended

\* The controller annotates: it is enabled and not suspended.
Active(f) == ~suspended(f)

\* setLineTracker(enabled): start unless subscribed, or stop.
setLineTracker(f, enabled) == [f EXCEPT !.subscribed = enabled]

\* resume(): the controller with what the call returns.
resume(f) ==
    LET f1 == setLineTracker(f, TRUE)
    IN  IF f1.suspended THEN [f |-> [f1 EXCEPT !.suspended = FALSE], ret |-> TRUE]
        ELSE [f |-> f1, ret |-> FALSE]

\* suspend(): the controller with what the call returns.
suspend(f) ==
    LET f1 == setLineTracker(f, FALSE)
    IN  IF ~f1.suspended THEN [f |-> [f1 EXCEPT !.suspended = TRUE], ret |-> TRUE]
        ELSE [f |-> f1, ret |-> FALSE]

\* A toggle() that negates _enabled whatever suspended is.
toggle_Enabled(f) ==
    LET f1 == [f EXCEPT !.enabled = ~f.enabled]
    IN  IF f1.enabled THEN resume(f1) ELSE suspend(f1)

\* toggle(editor): the controller, and whether refresh(editor) was called.
toggle(f) ==
    LET f1 == [f EXCEPT !.enabled = ~(f.enabled /\ ~suspended(f))]
    IN  IF f1.enabled THEN resume(f1) ELSE suspend(f1)

\* onConfigurationChanged(e), e a change of currentLine: with `enabled`
\* changed the controller follows the setting; refresh is called.
onConfigurationChanged(f, enabledChanged) ==
    IF ~enabledChanged THEN [f |-> f, ret |-> TRUE]
    ELSE IF f.config
    THEN [f |-> resume([f EXCEPT !.enabled = TRUE]).f, ret |-> TRUE]
    ELSE [f |-> setLineTracker([f EXCEPT !.enabled = FALSE], FALSE), ret |-> TRUE]

\* A call was made: the controller after it, the call, whether the controller
\* was active before it and whether refresh was called during it.
LacCalled(op, out) ==
    /\ lac' = [out.f EXCEPT !.last = [op |-> op, was |-> Active(lac), refreshed |-> out.ret],
                            !.refreshes = IF out.ret THEN lac.refreshes + 1 ELSE lac.refreshes]
    /\ lac'.refreshes <= MaxRefreshCalls
    /\ UNCHANGED notLac

\* The setting currentLine.enabled is changed, or another setting of
\* currentLine, and onConfigurationChanged runs.
LacConfigurationChanged(value) ==
    LacCalled("onConfigurationChanged",
              onConfigurationChanged([lac EXCEPT !.config = value], value # lac.config))

LacResume == LacCalled("resume", [f |-> resume(lac).f, ret |-> FALSE])

LacSuspend == LacCalled("suspend", [f |-> suspend(lac).f, ret |-> FALSE])

LacToggle == LacCalled("toggle", toggle(lac))

\* The constructor: `_enabled = false`, `_suspended = false`, then
\* onConfigurationChanged(configuration.initializingChangeEvent).
InitLacIdle ==
    lac = [enabled |-> FALSE, suspended |-> FALSE, subscribed |-> FALSE, config |-> FALSE,
           last |-> [op |-> "constructor", was |-> FALSE, refreshed |-> TRUE],
           refreshes |-> 0]

InitLac ==
    \E config \in BOOLEAN :
        lac = [onConfigurationChanged(
                   [enabled |-> FALSE, suspended |-> FALSE, subscribed |-> FALSE,
                    config |-> config,
                    last |-> [op |-> "constructor", was |-> FALSE, refreshed |-> TRUE],
                    refreshes |-> 0], TRUE).f EXCEPT !.refreshes = 0]

NextLac ==
    \/ \E value \in BOOLEAN : LacConfigurationChanged(value)
    \/ LacResume
    \/ LacSuspend
    \/ LacToggle

\* ---------------------------------------------------------------------------
\* BranchNode.getChildren: the list of children it builds.

MaxLogCommits == 2

\* The logs getLog resolves to: none, or commits newest first.
BranchLogs ==
    {undefined} \cup
    { [commits |-> [i \in 1..n |-> n + 1 - i], hasMore |-> more] :
        n \in 0..MaxLogCommits, more \in BOOLEAN }

\* What getChildren reads: the node's options, the view, the branch and what
\* the git service resolved. The merge status is asked for only with
\* showStatus on the current branch, the rebase status only with showStatus.
BranchInputs ==
    { i \in [showComparison : BOOLEAN, remotesView : BOOLEAN, pr : BOOLEAN,
             showStatus : BOOLEAN, current : BOOLEAN, mergeStatus : BOOLEAN,
             rebaseStatus : BOOLEAN, incoming : BOOLEAN, showTracking : BOOLEAN,
             tracking : BOOLEAN, root : BOOLEAN, behind : BOOLEAN, ahead : BOOLEAN,
             markers : BOOLEAN, log : BranchLogs] :
        /\ i.mergeStatus => (i.showStatus /\ i.current)
        /\ i.rebaseStatus => i.showStatus
        /\ i.incoming => i.rebaseStatus
        /\ (i.behind \/ i.ahead) => i.tracking }

ChildNode(kind) == [kind |-> kind, of |-> 0]

TrackingNode(upstreamStatus) == [kind |-> "tracking", of |-> upstreamStatus]

BranchCommitNode(c) == [kind |-> "commit", of |-> c]

\* insertDateMarkers(nodes, parent): the nodes, with a marker before the first.
insertDateMarkers(nodes, markers) ==
    IF markers /\ nodes # <<>> THEN <<ChildNode("dateMarker")>> \o nodes ELSE nodes

\* The `else if (this.options.showTracking)` branch.
TrackingStatusNodes(i) ==
    IF i.tracking
    THEN IF i.root /\ ~i.behind /\ ~i.ahead
         THEN <<TrackingNode("same")>>
         ELSE (IF i.behind THEN <<TrackingNode("behind")>> ELSE <<>>)
              \o (IF i.ahead THEN <<TrackingNode("ahead")>> ELSE <<>>)
    ELSE <<TrackingNode("none")>>

\* The merge status, else the rebase status, else the tracking status.
StatusNodes(i) ==
    IF i.showStatus /\ i.mergeStatus THEN <<ChildNode("mergeStatus")>>
    ELSE IF i.showStatus /\ i.rebaseStatus /\ (i.current \/ i.incoming)
    THEN <<ChildNode("rebaseStatus")>>
    ELSE IF i.showTracking THEN TrackingStatusNodes(i)
    ELSE <<>>

\* The nodes pushed before the separator.
LeadingNodes(i) ==
    (IF i.showComparison /\ ~i.remotesView THEN <<ChildNode("compare")>> ELSE <<>>)
    \o (IF i.pr THEN <<ChildNode("pullRequest")>> ELSE <<>>)
    \o StatusNodes(i)

\* The commit nodes and, with hasMore, the LoadMoreNode.
LogNodes(i) ==
    insertDateMarkers([k \in 1..Len(i.log.commits) |-> BranchCommitNode(i.log.commits[k])],
                      i.markers)
    \o (IF i.log.hasMore THEN <<ChildNode("loadMore")>> ELSE <<>>)

\* A getChildren that pushes the separator whatever was pushed before it.
BranchNode_getChildren_Separator(i) ==
    LeadingNodes(i) \o <<ChildNode("separator")>> \o LogNodes(i)

\* BranchNode.getChildren with no `_children`: the list it builds from a log.
BranchNode_getChildren(i) ==
    LET pushed == LeadingNodes(i)
    IN  (IF pushed # <<>> THEN pushed \o <<ChildNode("separator")>> ELSE pushed)
        \o LogNodes(i)

\* getChildren(): without a log a message is returned and nothing is kept;
\* with `_children` set it is returned as it is.
BcGetChildren ==
    /\ bc' = IF bc.children # undefined THEN [bc EXCEPT !.calls = 1]
             ELSE IF bc.in.log = undefined THEN [bc EXCEPT !.calls = 1]
             ELSE [bc EXCEPT !.children = [nodes |-> BranchNode_getChildren(bc.in)],
                             !.calls = 1]
    /\ bc' # bc
    /\ UNCHANGED notBc

\* refresh(): `_children` is unset; the repository may have changed.
BcRefresh ==
    /\ bc.children # undefined
    /\ \E l \in BranchLogs, pr \in BOOLEAN :
           bc' = [in |-> [bc.in EXCEPT !.log = l, !.pr = pr],
                  children |-> undefined, calls |-> 0]
    /\ UNCHANGED notBc

InitBcIdle ==
    bc = [in |-> [showComparison |-> FALSE, remotesView |-> FALSE, pr |-> FALSE,
                  showStatus |-> FALSE, current |-> FALSE, mergeStatus |-> FALSE,
                  rebaseStatus |-> FALSE, incoming |-> FALSE, showTracking |-> FALSE,
                  tracking |-> FALSE, root |-> FALSE, behind |-> FALSE, ahead |-> FALSE,
                  markers |-> FALSE, log |-> undefined],
          children |-> undefined, calls |-> 0]

InitBc == \E i \in BranchInputs : bc = [in |-> i, children |-> undefined, calls |-> 0]

NextBc ==
    \/ BcGetChildren
    \/ BcRefresh

\* `protected splatted = true` is the flag as constructed.
InitFailIdle ==
    /\ xRejected = {} /\ tFlight = NoFlight /\ fRevealed = undefined /\ splatted = TRUE
    /\ InitShare
    /\ InitIds
    /\ InitUriIdle
    /\ InitLacIdle
    /\ InitBcIdle

InitLateIdle == InitAnnotIdle /\ InitViewIdle /\ InitTrackIdle /\ InitFailIdle

NextBranch ==
    \/ GetChildrenCached(1)
    \/ GetChildrenStart(1)
    \/ GetChildrenGetLog(1)
    \/ GetChildrenGetLogResume(1)
    \/ GetChildrenBuild(1)
    \/ \E reset \in BOOLEAN : BranchRefresh(reset)
    \/ \E arg \in LoadMoreArgs : LoadMoreStart(arg)
    \/ LoadMoreGetLogResume
    \/ LoadMoreMore
    \/ LoadMoreResume

\* Two getChildren() callers and refresh().
NextGetChildren ==
    \/ \E c \in Callers : GetChildrenCached(c)
    \/ \E c \in Callers : GetChildrenStart(c)
    \/ \E c \in Callers : GetChildrenGetLog(c)
    \/ \E c \in Callers : GetChildrenGetLogResume(c)
    \/ \E c \in Callers : GetChildrenBuild(c)
    \/ \E reset \in BOOLEAN : BranchRefresh(reset)

\* getChildren() and refresh() of every node, one call at a time per node.
NextCache ==
    \/ expanded = "BranchNode" /\ GetChildrenCached(1)
    \/ expanded = "BranchNode" /\ GetChildrenStart(1)
    \/ expanded = "BranchNode" /\ GetChildrenGetLog(1)
    \/ expanded = "BranchNode" /\ GetChildrenGetLogResume(1)
    \/ expanded = "BranchNode" /\ GetChildrenBuild(1)
    \/ expanded = "BranchNode" /\ \E reset \in BOOLEAN : BranchRefresh(reset)
    \/ expanded = "BranchesNode" /\ BranchesGetChildrenCached
    \/ expanded = "BranchesNode" /\ BranchesGetChildrenStart
    \/ expanded = "BranchesNode" /\ BranchesGetChildrenResume
    \/ expanded = "BranchesNode" /\ BranchesRefresh
    \/ expanded = "CommitNode" /\ CommitGetChildren

vars == <<treeVars, changeVars, matchVars, findVars, raceVars, lateVars>>

InitIdle ==
    /\ bsChildren = undefined
    /\ layout = "tree"
    /\ branches = 0
    /\ bsPc = "idle"
    /\ expanded = "BranchNode"

InitTreeIdle == InitBranch /\ root = FALSE /\ repoLen = 0 /\ ahead = 0 /\ InitIdle

Init == InitBranch /\ InitIdle /\ InitChange /\ InitNoMatch /\ InitFindIdle /\ InitRaceIdle /\ InitLateIdle

Next == NextBranch

Spec == Init /\ [][Next]_vars

SpecGetChildren == Init /\ [][NextGetChildren]_vars

\* A branch node constructed with any last known limit
\* (`limit = this.view.getNodeLastKnownLimit(this)`) on a branch that is ahead
\* of its upstream by up to MaxLimitAhead commits.
InitLimit ==
    /\ children = undefined
    /\ log = undefined
    /\ limit \in {NoLimit} \cup 0..MaxKnownLimit
    /\ root \in BOOLEAN
    /\ repoLen \in 0..MaxRepoLen
    /\ ahead \in 0..MaxLimitAhead
    /\ pc = [c \in Callers |-> "idle"]
    /\ local = [c \in Callers |-> [limit |-> NoLimit, log |-> undefined]]
    /\ lm = LmIdle
    /\ prevRet = [n \in Nodes |-> undefined]
    /\ lastRet = [n \in Nodes |-> undefined]
    /\ InitIdle /\ InitChange /\ InitNoMatch /\ InitFindIdle /\ InitRaceIdle /\ InitLateIdle

SpecLimit == InitLimit /\ [][NextBranch]_vars

InitCache ==
    /\ InitBranch /\ InitBranches /\ expanded \in Nodes
    /\ InitChange /\ InitNoMatch /\ InitFindIdle /\ InitRaceIdle /\ InitLateIdle

SpecCache == InitCache /\ [][NextCache]_vars

InitChangeOnly == InitTreeIdle /\ InitChange /\ InitNoMatch /\ InitFindIdle /\ InitRaceIdle /\ InitLateIdle

SpecChange == InitChangeOnly /\ [][NextChange]_vars

InitMatchOnly == InitTreeIdle /\ InitChange /\ InitMatch /\ InitFindIdle /\ InitRaceIdle /\ InitLateIdle

SpecMatch == InitMatchOnly /\ [][NextMatch]_vars

InitFindOnly ==
    InitFind /\ InitFindBranch /\ InitIdle /\ InitChange /\ InitNoMatch /\ InitRaceIdle /\ InitLateIdle

InitRaceOnly == InitTreeIdle /\ InitChange /\ InitNoMatch /\ InitFindIdle /\ InitRace /\ InitLateIdle

SpecRace == InitRaceOnly /\ [][NextRace]_vars

SpecFind == InitFindOnly /\ [][NextFind]_vars

\* The reveal operations: the search and what follows it.
NextReveal == NextFind \/ Reveal

SpecReveal == InitFindOnly /\ [][NextReveal]_vars

InitAnnotOnly ==
    /\ InitTreeIdle /\ InitChange /\ InitNoMatch /\ InitFindIdle /\ InitRaceIdle
    /\ InitAnnot /\ InitViewIdle /\ InitTrackIdle /\ InitFailIdle

SpecAnnot == InitAnnotOnly /\ [][NextAnnot]_vars

\* The refreshes with lookups that may fail after the timeout.
NextLookup ==
    \/ NextFollowUp
    \/ \E p \in Renders, ref \in CommitRefs : LookupReject(p, ref)

SpecLookup == InitAnnotOnly /\ [][NextLookup]_vars

InitEarlyIdle == InitTreeIdle /\ InitChange /\ InitNoMatch /\ InitFindIdle /\ InitRaceIdle

InitViewOnly == InitEarlyIdle /\ InitAnnotIdle /\ InitView /\ InitTrackIdle /\ InitFailIdle

InitTrackOnly == InitEarlyIdle /\ InitAnnotIdle /\ InitViewIdle /\ InitTrack /\ InitFailIdle

SpecTrack == InitTrackOnly /\ [][NextTrack]_vars

\* getChildren() and refresh() of every node, with data access that may fail.
NextReject ==
    \/ NextCache
    \/ expanded = "BranchNode" /\ GetChildrenReject(1)
    \/ expanded = "BranchesNode" /\ BranchesGetChildrenReject

SpecReject == InitCache /\ [][NextReject]_vars

SpecGate == InitTrackOnly /\ [][NextGate]_vars

\* One node at a time: a branch node, a view's root or a subscribeable node,
\* the other two left as constructed.
InitNodes ==
    /\ InitChange /\ InitNoMatch /\ InitFindIdle /\ InitRaceIdle /\ InitAnnotIdle
    /\ InitFailIdle
    /\ \/ InitBranch /\ InitIdle /\ InitViewIdle /\ InitTrackIdle
       \/ InitTreeIdle /\ InitView /\ InitTrackIdle
       \/ InitTreeIdle /\ InitViewIdle /\ InitTrack

NextNodes ==
    \/ InitViewIdle /\ InitTrackIdle /\ NextBranch
    \/ InitTreeIdle /\ InitTrackIdle /\ NextView
    \/ InitTreeIdle /\ InitViewIdle /\ NextTrack

SpecNodes == InitNodes /\ [][NextNodes]_vars

SpecView == InitViewOnly /\ [][NextView]_vars

\* No reveal call has been made.
InitShareOnly == InitEarlyIdle /\ InitLateIdle

SpecShare == InitShareOnly /\ [][NextShare]_vars

\* No node has been materialized.
InitIdsOnly == InitEarlyIdle /\ InitLateIdle

SpecIds == InitIdsOnly /\ [][NextIds]_vars

\* The tracker node as constructed: no uri, no child.
InitUriOnly == InitEarlyIdle /\ InitLateIdle

SpecUri == InitUriOnly /\ [][NextUri]_vars

InitLacOnly ==
    /\ InitEarlyIdle /\ InitAnnotIdle /\ InitViewIdle /\ InitTrackIdle
    /\ xRejected = {} /\ tFlight = NoFlight /\ fRevealed = undefined /\ splatted = TRUE
    /\ InitShare /\ InitIds /\ InitUriIdle
    /\ InitLac
    /\ InitBcIdle

SpecLac == InitLacOnly /\ [][NextLac]_vars

InitBcOnly ==
    /\ InitEarlyIdle /\ InitAnnotIdle /\ InitViewIdle /\ InitTrackIdle
    /\ xRejected = {} /\ tFlight = NoFlight /\ fRevealed = undefined /\ splatted = TRUE
    /\ InitShare /\ InitIds /\ InitUriIdle /\ InitLacIdle
    /\ InitBc

SpecBc == InitBcOnly /\ [][NextBc]_vars

\* A node that is rendered while it is used: the BranchNode, or a
\* subscribeable node.
InitTreeItem ==
    /\ InitChange /\ InitNoMatch /\ InitFindIdle /\ InitRaceIdle /\ InitAnnotIdle
    /\ InitViewIdle /\ InitFailIdle
    /\ \/ InitBranch /\ InitIdle /\ InitTrackIdle
       \/ InitTreeIdle /\ InitTrack

NextTreeItem ==
    \/ InitTrackIdle /\ NextBranch
    \/ InitTrackIdle /\ BranchGetTreeItem
    \/ InitTreeIdle /\ NextTrack

SpecTreeItem == InitTreeItem /\ [][NextTreeItem]_vars

\* The nodes with a refresh() that clears a cache: BranchNode and BranchesNode
\* with their getChildren(), or the root of a view with its repositories.
InitRefresh ==
    /\ InitChange /\ InitNoMatch /\ InitFindIdle /\ InitRaceIdle /\ InitAnnotIdle
    /\ InitTrackIdle /\ InitFailIdle
    /\ \/ InitBranch /\ InitBranches /\ expanded \in Nodes /\ InitViewIdle
       \/ InitTreeIdle /\ InitView

NextRefresh ==
    \/ InitViewIdle /\ NextCache
    \/ InitTreeIdle /\ NextView

SpecRefresh == InitRefresh /\ [][NextRefresh]_vars

\* Every lookup settles (a failed one settles as absent), and the event loop
\* resumes a wait whose promise has settled.  Here suspend() and resume() are
\* not called while the refreshes run.
FairSpecAnnot ==
    /\ InitAnnotOnly
    /\ [][NextFollowUp]_vars
    /\ \A p \in Renders :
           /\ WF_vars(\E ref \in CommitRefs :
                         \E pr \in {PullRequest(ref), undefined} : LookupSettle(p, ref, pr))
           /\ WF_vars(\E valid \in BOOLEAN : WaitResume(p, valid))

(***************************************************************************)
(* The claims                                                              *)
(***************************************************************************)

\* C1: two consecutive getChildren() calls on a node, with no refresh() or
\* loadMore() in between, return the identical children sequence (the same
\* objects), also when the result is a message placeholder.
C1_CacheIdentity ==
    \A n \in Nodes : prevRet[n] # undefined => lastRet[n] = prevRet[n]

\* C2: two interleaved getChildren() calls on a BranchNode with nothing
\* cached cause one Container.git.getLog call, and both receive the same
\* children sequence.
C2_SingleFlight ==
    /\ Cardinality({c \in Callers : pc[c] = "getLog"}) <= 1
    /\ prevRet["BranchNode"] # undefined => lastRet["BranchNode"] = prevRet["BranchNode"]

\* C9: with no refresh(true) in between, the loaded log only grows: what was
\* loaded stays the first entries of the log, in the same order.
C9_LogOnlyGrows ==
    [][(log # undefined /\ log' # undefined) => IsPrefix(log.commits, log'.commits)]_vars

\* C3: an event whose kinds are only {Status} invalidates neither the
\* ContributorsRepositoryNode (it watches Config, Heads, Remotes, Unknown) nor
\* the RemotesRepositoryNode (it watches Config, Remotes, Unknown); an event
\* with no kind of a node's watch set never invalidates that node.
C3_StatusOnlyIgnored ==
    /\ lastEvent = {"Status"} =>
           /\ "ContributorsRepositoryNode" \notin invalidatedBy
           /\ "RemotesRepositoryNode" \notin invalidatedBy
    /\ lastEvent \cap {"Config", "Heads", "Remotes", "Unknown"} = {} =>
           "ContributorsRepositoryNode" \notin invalidatedBy
    /\ lastEvent \cap {"Config", "Remotes", "Unknown"} = {} =>
           "RemotesRepositoryNode" \notin invalidatedBy
    /\ lastEvent \cap {"Config", "Heads", "Index", "Remotes", "Status", "Unknown"} = {} =>
           /\ "BranchesRepositoryNode" \notin invalidatedBy
           /\ "CommitsRepositoryNode" \notin invalidatedBy

\* C3 witness: a {Status} event was delivered to the subscribed Contributors
\* and Remotes nodes, which keep their child, while it invalidated the
\* Branches node.
C3_Witness ==
    /\ lastEvent = {"Status"}
    /\ {"ContributorsRepositoryNode", "RemotesRepositoryNode", "BranchesRepositoryNode"}
           \subseteq deliveredTo
    /\ repoChild["ContributorsRepositoryNode"]
    /\ repoChild["RemotesRepositoryNode"]
    /\ "BranchesRepositoryNode" \in invalidatedBy
    /\ ~repoChild["BranchesRepositoryNode"]

\* C4: an event with Unknown among its kinds invalidates every subscribed
\* repository node of every view, whatever else the event holds.
C4_UnknownInvalidatesAll ==
    "Unknown" \in lastEvent => \A n \in deliveredTo : n \in invalidatedBy

\* C4 witness: an event of Unknown and Tags, which no node watches, was
\* delivered to the four subscribed repository nodes and invalidated them.
C4_Witness ==
    /\ lastEvent = {"Tags", "Unknown"}
    /\ deliveredTo = RepoNodes
    /\ invalidatedBy = RepoNodes

C6_MaxDepth ==
    \A e \in fCalled :
        /\ fOp = "BranchesView.findBranch" => e.depth <= 4
        /\ fOp = "RepositoriesView.findBranch" =>
               e.depth <= (IF fTarget.remote THEN 6 ELSE 5)
        /\ fOp = "RepositoriesView.revealRepository" => e.depth <= 1
        /\ fOp \in {"RepositoriesView.revealBranches", "RepositoriesView.revealStashes",
                    "RepositoriesView.revealTags"} => e.depth <= 2

\* C6 witness: the search for a local branch that lies deeper than 5 levels
\* has ended without it, having called getChildren() on a node of depth 5.
C6_Witness ==
    /\ fOp = "RepositoriesView.findBranch"
    /\ ~fTarget.remote
    /\ folders >= 3
    /\ fPc = "done"
    /\ ~token
    /\ fResult = undefined
    /\ \E e \in fCalled : e.depth = 5 /\ e.node.kind = "BranchOrTagFolderNode"

\* How deep the node of the branch searched for lies in the view's tree.
TargetBranchDepth ==
    folders + (CASE ViewOf(fOp) = "RepositoriesView" -> (IF fTarget.remote THEN 4 ELSE 3)
                 [] OTHER -> (IF repos = 1 THEN 1 ELSE 2))

\* The search for a local branch calls getChildren() on no node canTraverse
\* refused, on no RemotesNode or RemoteNode, on no node of another repository.
LocalBranchPruned ==
    \A e \in fCalled :
        /\ e.node \notin fPruned
        /\ e.node.kind \notin {"RemotesNode", "RemoteNode"}
        /\ e.node.id.repoPath \in {NoRepo, fTarget.repo}

CommitRevealed ==
    IF fTarget.commit <= repoLen
    THEN /\ fResult # undefined
         /\ fResult.kind = "CommitNode"
         /\ fResult.commit = fTarget.commit
         /\ log # undefined
         /\ \E i \in 1..Len(log.commits) : log.commits[i] = fTarget.commit
    ELSE /\ fResult = undefined
         /\ log = undefined \/ ~log.hasMore

C11_ResolvedMap ==
    \A r \in cFired :
        LET entries == proc[r].prs.entries
            resolved == proc[FollowUp(r)].opts.entries
        IN  /\ Len(resolved) = Len(entries)
            /\ \A i \in 1..Len(entries) :
                   /\ resolved[i].key = entries[i].key
                   /\ resolved[i].value = cLookup[r][entries[i].key]
                   /\ ~IsCancellationError(entries[i]) => resolved[i].value = entries[i].value

\* C11 witness: a follow-up refresh was handed a map of two keys, one that
\* had resolved within the timeout and one that was pending and settled with
\* a pull request after it.
C11_Witness ==
    \E r \in cFired :
        /\ Len(proc[r].prs.entries) = 2
        /\ \E i, j \in 1..2 :
               /\ ~IsCancellationError(proc[r].prs.entries[i])
               /\ IsCancellationError(proc[r].prs.entries[j])
               /\ proc[FollowUp(r)].opts.entries[j].value = PullRequest(proc[r].prs.entries[j].key)

\* What C12 states of every state: a follow-up refresh is called only for a
\* render that had a pending entry and only once every lookup of the render
\* has settled, and a follow-up refresh waits for no follow-up of its own.
FollowUpOnce ==
    /\ \A r \in cFired :
           /\ PendingCount(proc[r].prs) > 0
           /\ \A ref \in CommitRefs : cLookup[r][ref] # running
           /\ proc[r].wpc = "done"
    /\ ~cChained
    /\ \A p \in Procs \ Renders : proc[p].wpc # "await" /\ p \notin cFired

\* The render r has set its decorations from a map with a pending entry.
HasPending(r) ==
    /\ proc[r].pc = "done"
    /\ proc[r].prs # undefined
    /\ PendingCount(proc[r].prs) > 0

C13_StaleNeverFires ==
    \A r \in cStale : r \notin cFired

\* C14: a follow-up refresh takes the pull requests from the resolved map it
\* is given: it never calls getPullRequests, raceAll or getPullRequestForCommit.
C14_NoSecondLookup ==
    \A p \in Procs \ Renders :
        /\ proc[p].pc \notin {"getRichRemoteProvider", "raceAll"}
        /\ \A ref \in CommitRefs : cLookup[p][ref] = notStarted
        /\ (proc[p].pc = "all" /\ proc[p].prs # undefined) => proc[p].prs = proc[p].opts

\* C14 witness: a follow-up refresh has set the decoration of a line from the
\* pull request of the resolved map.
C14_Witness ==
    \E r \in cFired :
        /\ proc[FollowUp(r)].pc = "done"
        /\ cDecor[proc[r].editor].by = FollowUp(r)
        /\ Len(cDecor[proc[r].editor].prs) > 0
        /\ cDecor[proc[r].editor].prs[1] = PullRequest(proc[FollowUp(r)].lines[1])

\* C15: no disposed repository node is kept in the root's children, returned
\* by the root's getChildren(), or has getChildren() or ensureSubscription()
\* called on it, however the root's getChildren() calls interleave with
\* refresh(true).
C15_NoDisposedNode ==
    /\ Held(vChildren) \cap vDisposed = {}
    /\ vOnDisposed = {}

\* C16: whenever a node discards its cached child or children, every child it
\* held before is disposed before a new child is materialized.
C16_DisposedBeforeNew == vLeaked = {}

\* How often a run of dispose() calls disposed the child or the subscription.
Disposals(x) == Cardinality({i \in DOMAIN tLog : tLog[i] = x})

\* C17: dispose() is idempotent on a tracker node: a second dispose() changes
\* nothing, no child is disposed more than once and no subscription is
\* released more than once; after dispose() the node holds neither.
C17_DisposeIdempotent ==
    /\ \A o \in 1..MaxChildren : tKids.disposed[o] <= 1
    /\ \A h \in 1..MaxHandles : tSubs.released[h] <= 1
    /\ tRun >= 1 =>
           /\ tKids.child = 0
           /\ tSubs.sub = 0
           /\ Disposals("child") <= 1
           /\ Disposals("subscription") <= 1

\* A tracker that held a child and a subscription was disposed twice in a row.
C17_Witness ==
    /\ tKind # "CommitsRepositoryNode"
    /\ tRun = 2
    /\ Disposals("child") = 1
    /\ Disposals("subscription") = 1

\* C18: dispose() disposes the node's materialized child first and releases
\* the node's own subscription only afterwards.
C18_ChildrenFirst ==
    \A i, j \in DOMAIN tLog :
        (tLog[i] = "child" /\ tLog[j] = "subscription") => i < j

C21_MessageOnFailure == xRejected = {}

C23_Idempotent ==
    /\ \A reset \in BOOLEAN :
           LET once == BranchNode_refresh([children |-> children, log |-> log], reset)
           IN  BranchNode_refresh(once, reset) = once
    /\ \A reset \in BOOLEAN :
           LET once == ViewNode_refresh(ViewFields, reset)
           IN  ViewNode_refresh(once, reset) = once
    /\ resetChild(resetChild(tKids)) = resetChild(tKids)

\* A tracker holds a child that an invalidation will dispose, after an
\* earlier child was disposed by one.
C23_Witness ==
    /\ tKids.child # 0
    /\ \E o \in 1..MaxChildren : tKids.disposed[o] = 1

\* C24: once the token of a reveal is cancelled, the reveal starts no further
\* getChildren() or loadMore() call, reveals no node and returns undefined.
C24_CancelledStops ==
    [][token =>
          /\ fCalled' = fCalled
          /\ lm.pc = "idle" => lm'.pc = "idle"
          /\ fRevealed' = fRevealed
          /\ (fPc # "done" /\ fPc' = "done") => fResult' = undefined]_vars

\* C25: every reveal operation is cancellable: its search is given a token,
\* and the token is consulted when the paging inside canTraverse resumes.
C25_Cancellable ==
    [][/\ fPc' # "idle" => PassesToken(fOp)
       /\ (token /\ fPc = "loadMore") => fPc' \in {"loadMore", "done"}]_vars

\* C26: a reveal whose search matched no node returns undefined without
\* calling reveal or ensureRevealNode; a node is revealed only when the search
\* returned it, and then it is a node that matches the target.
C26_NotFound ==
    /\ fPc # "revealed" => fRevealed = undefined
    /\ fPc = "revealed" =>
           /\ fRevealed = fResult
           /\ fResult # undefined => predicate(fResult)

\* A search for a remote branch in the Branches view, which shows none,
\* returned without a node and nothing was revealed.
C26_Witness ==
    /\ fOp = "BranchesView.findBranch"
    /\ fTarget.remote
    /\ fPc = "revealed"
    /\ fResult = undefined
    /\ fRevealed = undefined

\* loadMore() is at a step where the log it works on reports no more commits.
LoadsNoMore ==
    \/ lm.pc = "idle" /\ log # undefined /\ ~log.hasMore
    \/ lm.pc = "gotLog" /\ lm.log # undefined /\ ~lm.log.hasMore

\* C27: BranchNode.hasMore is true while no log has been fetched and false
\* only when the fetched log reports no more commits; every step of a
\* loadMore() on a log that reports no more commits leaves the children, the
\* log and the limit as they were, notifies no change, and the call returns
\* without paging.
C27_HasMore ==
    /\ [](/\ log = undefined => BranchNode_hasMore
          /\ ~BranchNode_hasMore => (log # undefined /\ ~log.hasMore))
    /\ [][(lm' # lm /\ LoadsNoMore) =>
              /\ UNCHANGED <<children, log, limit, prevRet, lastRet>>
              /\ lm.pc = "idle" => lm'.pc = "gotLog"
              /\ lm.pc = "gotLog" => lm' = LmIdle]_vars

\* loadMore() was called on a node whose children are cached and whose log
\* holds the whole history and reports no more.
C27_Witness ==
    /\ lm.pc = "gotLog"
    /\ lm.log # undefined
    /\ ~lm.log.hasMore
    /\ log = lm.log
    /\ children # undefined
    /\ ~BranchNode_hasMore

C29_FailedLookupAbsent ==
    /\ \A r \in Renders :
           (/\ proc[r].wpc \notin {"none", "await"}
            /\ PendingCount(proc[r].prs) > 0
            /\ r \notin cStale
            /\ proc[r].token \notin cCancelled
            /\ proc[r].editor = cEditor)
           => /\ r \in cFired
              /\ \A i \in 1..Len(proc[r].prs.entries) :
                     LET k == proc[r].prs.entries[i].key
                     IN  proc[FollowUp(r)].opts.entries[i].value =
                             (IF cLookup[r][k] = rejected THEN undefined ELSE cLookup[r][k])
    /\ \A p \in Procs \ Renders, ref \in CommitRefs : cLookup[p][ref] = notStarted

\* C30: getTreeItem() changes no node state other than bootstrapping the
\* subscription: a getTreeItem() step leaves the cached children, the log, the
\* limit, the child of a subscribeable node and the flags (canSubscribe,
\* splatted) as they were.
C30_TreeItemPure ==
    [][(BranchGetTreeItem \/ \E lastFetched \in BOOLEAN : NodeGetTreeItem(lastFetched)) =>
           UNCHANGED <<children, log, limit, tKids, tCan, splatted>>]_vars

\* C31: every reveal call resolves to undefined or to a node that matches
\* the target passed to that call, also when another reveal of the method for
\* a different target is in flight.
C31_OwnTarget ==
    \A c \in RevealCallers :
        rvCall[c].pc = "done" =>
            \/ rvCall[c].result = undefined
            \/ rvCall[c].result = RevealedNode(rvCall[c].method, rvCall[c].ref)

\* C32: a node's id is a function of the entity it shows and is the same
\* after refresh(), loadMore() and re-materialization; the id of a BranchNode
\* or BranchesNode starts with the id of its repository node; and two
\* BranchNodes of one repository for different branches, or for a root and a
\* non-root, have different ids.
C32_StableId ==
    /\ \A place \in Places :
           nodeIds[place] # undefined =>
               /\ nodeIds[place].id = nodeIds[place].was
               /\ IsPrefix(RepositoryNode_getId_Str(nodeIds[place].entity.repo), nodeIds[place].id)
    /\ \A p, q \in Places :
           (/\ nodeIds[p] # undefined /\ nodeIds[q] # undefined
            /\ nodeIds[p].entity.kind = "BranchNode" /\ nodeIds[q].entity.kind = "BranchNode"
            /\ nodeIds[p].entity.repo = nodeIds[q].entity.repo
            /\ nodeIds[p].entity # nodeIds[q].entity)
           => nodeIds[p].id # nodeIds[q].id

\* One branch of one repository is shown as a root and as a non-root, and both
\* nodes were constructed again after a refresh.
C32_Witness ==
    /\ nodeIds[1] # undefined /\ nodeIds[2] # undefined
    /\ nodeIds[1].entity.kind = "BranchNode" /\ nodeIds[2].entity.kind = "BranchNode"
    /\ nodeIds[1].entity.repo = nodeIds[2].entity.repo
    /\ nodeIds[1].entity.name = nodeIds[2].entity.name
    /\ nodeIds[1].entity.root /\ ~nodeIds[2].entity.root
    /\ nodeIds[1].gen = 1 /\ nodeIds[2].gen = 1

\* C33: a loadMore() that was in flight when refresh(true) discarded the log
\* installs neither its log nor its limit when it completes: the log is then
\* still unset, or the one a later getChildren() fetched afresh.
C33_NoStaleLog ==
    [][(lm.pc = "more" /\ log # lm.log /\ lm'.pc = "idle") =>
           UNCHANGED <<log, limit>>]_vars

\* C34: whenever the tracker's cached child is set, it was built from the
\* node's current uri and base; and every child that was constructed is the
\* cached child or was disposed.
C34_ChildOfUri ==
    /\ fh.child # 0 => fh.built[fh.child] = [uri |-> fh.uri, base |-> fh.base]
    /\ \A o \in 1..fh.objs : o = fh.child \/ o \in fh.disposed

\* C35: while the controller is suspended no line decorations are applied to
\* any editor: a step taken while it is and stays suspended changes the
\* decorations of an editor only to none (no line is decorated), so a refresh
\* that was in flight when the controller became suspended sets none
\* afterwards.
C35_NoneWhileSuspended ==
    [][(cSuspended /\ cSuspended') =>
           \A e \in Editors : cDecor'[e] # cDecor[e] => cDecor'[e].prs = <<>>]_vars

\* C36: after any sequence of configuration changes, resume(), suspend() and
\* toggle() calls, the controller is subscribed to the line tracker if and
\* only if it is not suspended.
C36_SubscribedIffActive == lac.subscribed <=> ~suspended(lac)

\* C37: from every reachable combination of the flags, toggle() flips the
\* controller's effective state, and two consecutive toggle() calls restore
\* the effective state that held before them.
C37_ToggleFlips ==
    /\ Active(toggle(lac).f) = ~Active(lac)
    /\ Active(toggle(toggle(lac).f).f) = Active(lac)
    /\ lac.last.op = "toggle" => Active(lac) = ~lac.last.was

\* toggle() has run on a controller that was not active, the controller is
\* active, and refresh has been called MaxRefreshCalls times.
C37_Witness ==
    /\ lac.last.op = "toggle"
    /\ ~lac.last.was
    /\ lac.enabled /\ ~lac.suspended
    /\ lac.refreshes = MaxRefreshCalls

\* C38: every toggle() call that changes the controller's effective state
\* has called refresh before it completes.
C38_ToggleRefreshes ==
    (lac.last.op = "toggle" /\ Active(lac) # lac.last.was) => lac.last.refreshed

\* The place of a kind of child in the order the children are to have.
ChildRank(kind) ==
    CASE kind = "compare" -> 0
      [] kind = "pullRequest" -> 1
      [] kind \in {"mergeStatus", "rebaseStatus", "tracking"} -> 2
      [] kind = "separator" -> 3
      [] kind \in {"commit", "dateMarker"} -> 4
      [] kind = "loadMore" -> 5

\* The children of the given kinds, in their order.
ChildrenOf(nodes, kinds) ==
    LET Is(n) == n.kind \in kinds IN SelectSeq(nodes, Is)

BaseLimit ==
    IF limit # NoLimit THEN limit ELSE IF root THEN PageItemLimit ELSE DefaultItemLimit

\* What the limit passed to getLog is to be, given the base limit L.
LimitAsStated(passed, L) ==
    /\ (L = 0 \/ ahead <= L) => passed = L
    /\ (L # 0 /\ ahead > L) =>
           /\ passed \in {ahead + 1, 2 * L}
           /\ passed <= ahead + 1
           /\ passed <= 2 * L
    /\ passed >= L
    /\ passed <= 2 * L
    /\ L = 0 => passed = 0

\* C40: the limit passed to getLog, by getChildren and by loadMore, is the base
\* limit L unless L is not 0 and the branch is ahead by more than L, and then
\* min(ahead + 1, 2 * L); it is never below L, never above 2 * L, and 0 stays 0.
C40_LimitBounds ==
    [][/\ (pc[1] = "getBranchAheadRange" /\ pc'[1] = "getLog")
            => LimitAsStated(local'[1].limit, BaseLimit)
       /\ (lm.pc = "idle" /\ lm'.pc = "getLog")
            => LimitAsStated(lm'.fetch, BaseLimit)]_vars

\* getChildren awaits a log asked for with ahead + 1 commits, more than the
\* base limit and fewer than twice the base limit.
C40_Witness ==
    /\ pc[1] = "getLog"
    /\ local[1].limit = ahead + 1
    /\ local[1].limit > BaseLimit
    /\ local[1].limit < 2 * BaseLimit
====
